---- MODULE Spec2Model ----
(***************************************************************************)
(* Model of rigel's comment / string-literal extractor                     *)
(* (rigel/pipeline/preprocessor/comment_extractor.py) and of the license   *)
(* relevance filter of rigel/pipeline/preprocessor/preprocessor.py.        *)
(*                                                                         *)
(* A Python str is modelled as a sequence of one-character strings, so     *)
(* that startswith / endswith / split / strip / re.findall are computed    *)
(* character by character as the interpreter computes them.                *)
(***************************************************************************)
EXTENDS Integers, Sequences, FiniteSets, TLC

(***************************************************************************)
(* Bounds of the model.                                                    *)
(***************************************************************************)
\* number of physical lines of a delimiter-based input
MaxLines == 3
\* number of nodes of a markup document
MaxNodes == 3
\* number of Comments handed to the merge pass
MaxComments == 3
\* largest line number carried by a Comment handed to the merge pass
MaxLineNo == 3
\* number of literals handed to the relevance filter
MaxLiterals == 3
MaxConcurrentLines == 2
MaxFiles == 3
MaxLabels == 2
MaxProblems == 2
MaxProcessLines == 2

(***************************************************************************)
(* str methods                                                             *)
(***************************************************************************)
Whitespace == {" ", "\t", "\n"}

\* str.startswith
StartsWith(text, prefix) ==
    /\ Len(prefix) <= Len(text)
    /\ SubSeq(text, 1, Len(prefix)) = prefix

\* str.endswith
EndsWith(text, suffix) ==
    /\ Len(suffix) <= Len(text)
    /\ SubSeq(text, Len(text) - Len(suffix) + 1, Len(text)) = suffix

\* text[i:] (1-based i)
From(text, i) == SubSeq(text, i, Len(text))

RECURSIVE LStrip(_)
LStrip(text) ==
    IF text # << >> /\ Head(text) \in Whitespace THEN LStrip(Tail(text)) ELSE text

RECURSIVE RStrip(_)
RStrip(text) ==
    IF text # << >> /\ text[Len(text)] \in Whitespace
    THEN RStrip(SubSeq(text, 1, Len(text) - 1))
    ELSE text

\* str.strip()
Strip(text) == RStrip(LStrip(text))

Reverse(s) == [i \in 1..Len(s) |-> s[Len(s) + 1 - i]]

\* index of the leftmost occurrence of sep in text, 0 when there is none
FindFirst(text, sep) ==
    LET hits == {i \in 1..(Len(text) - Len(sep) + 1) :
                    SubSeq(text, i, i + Len(sep) - 1) = sep}
    IN  IF hits = {} THEN 0 ELSE CHOOSE i \in hits : \A j \in hits : i <= j

\* Split as str.split(sep, 1): the text is cut at the first occurrence only
SplitOnce(text, sep) ==
    LET i == FindFirst(text, sep)
    IN  IF i = 0 THEN <<text>>
        ELSE <<SubSeq(text, 1, i - 1), From(text, i + Len(sep))>>

\* str.split(sep): the pieces between the occurrences of sep, found left to right
RECURSIVE Split(_, _)
Split(text, sep) ==
    LET i == FindFirst(text, sep)
    IN  IF i = 0
        THEN <<text>>
        ELSE <<SubSeq(text, 1, i - 1)>> \o Split(From(text, i + Len(sep)), sep)

\* str.rsplit(sep): as split, the occurrences of sep found right to left
RSplit(text, sep) ==
    LET rev == Split(Reverse(text), Reverse(sep))
    IN  [i \in 1..Len(rev) |-> Reverse(rev[Len(rev) + 1 - i])]

\* sep.join(parts)
RECURSIVE Join(_, _)
Join(parts, sep) ==
    IF parts = << >> THEN << >>
    ELSE IF Len(parts) = 1 THEN parts[1]
    ELSE parts[1] \o sep \o Join(Tail(parts), sep)

\* str.splitlines() for the line break "\n"
RECURSIVE SplitLines(_)
SplitLines(text) ==
    LET i == FindFirst(text, <<"\n">>)
    IN  IF text = << >> THEN << >>
        ELSE IF i = 0 THEN <<text>>
        ELSE <<SubSeq(text, 1, i - 1)>> \o SplitLines(From(text, i + 1))

(***************************************************************************)
(* rigel/pipeline/enums.py: MimeType                                       *)
(***************************************************************************)
MIME_C == "text/x-c"
MIME_C_PLUS_PLUS == "text/x-c++"
MIME_JAVA == "text/x-c"
MIME_HTML == "text/html"
MIME_XML == "text/xml"
MIME_SGML == "text/html"
MIME_PYTHON == "text/x-python"
MIME_SHELL == "text/x-shellscript"
MIME_PHP == "text/x-php"
MIME_UNKNOWN == "unknown filetype"
\* a type that is no attribute of MimeType at all
MIME_OTHER == "text/plain"

(***************************************************************************)
(* comment_extractor.py: Comment, StringLiteral                            *)
(***************************************************************************)
\* Comment.__init__
Comment(body, start_line, end_line) ==
    [kind |-> "Comment", body |-> body, start_line |-> start_line,
     end_line |-> end_line, is_multiline |-> ~(start_line = end_line)]

\* Comment.parse with its default line numbers
CommentParse(body) == Comment(SplitLines(body), 0, 0)

\* StringLiteral.__init__
StringLiteral(text, line_number) ==
    [kind |-> "StringLiteral", text |-> text, line_number |-> line_number]

IsComment(item) == item.kind = "Comment"

\* Comment.last_line_number / StringLiteral.last_line_number
LastLineNumber(item) ==
    IF IsComment(item) THEN item.end_line ELSE item.line_number

\* Comment.__str__ (body_str) / StringLiteral.__str__
Str(item) ==
    IF IsComment(item) THEN Join(item.body, <<"\n">>) ELSE item.text

\* CommentAppend without the extend of the body
CommentAppendBodyKept(self, new_comment) ==
    [self EXCEPT !.end_line = new_comment.end_line, !.is_multiline = TRUE]

\* CommentAppend that puts the other body in front
CommentAppendInFront(self, new_comment) ==
    [self EXCEPT !.body = new_comment.body \o self.body,
                 !.end_line = new_comment.end_line,
                 !.is_multiline = TRUE]

\* Comment.append: the other comment is merged onto this one
CommentAppend(self, new_comment) ==
    [self EXCEPT !.body = self.body \o new_comment.body,
                 !.end_line = new_comment.end_line,
                 !.is_multiline = TRUE]

(***************************************************************************)
(* comment_extractor.py: CodeLanguage and its subclasses.  None is the     *)
(* empty sequence: the code only ever tests these fields for truth.        *)
(***************************************************************************)
LANG_HTML == "html"
LANG_PYTHON == "python"
LANG_PHP == "php"
LANG_XML == "xml"
LANG_SGML == "sgml"
LANG_STANDARD == "standard"
LANG_SHELL == "shell"

BaseCodeLanguage ==
    [slc_header |-> <<"/", "/">>, slc_footer |-> << >>, has_multiline |-> TRUE,
     mlc_header |-> <<"/", "*">>, mlc_middle |-> << >>, mlc_footer |-> <<"*", "/">>,
     string |-> << "\"" >>, sgml |-> FALSE]

PHPCodeLanguage ==
    [BaseCodeLanguage EXCEPT !.mlc_header = <<"/", "*", "*">>, !.mlc_middle = <<"*">>,
                             !.string = << "\"", "'" >>]

PythonCodeLanguage ==
    [BaseCodeLanguage EXCEPT !.slc_header = <<"#">>,
                             !.mlc_header = << "\"", "\"", "\"" >>,
                             !.mlc_footer = << "\"", "\"", "\"" >>,
                             !.string = << "\"", "'" >>]

ShellCodeLanguage ==
    [BaseCodeLanguage EXCEPT !.slc_header = <<"#">>, !.has_multiline = FALSE,
                             !.mlc_header = << >>, !.mlc_footer = << >>,
                             !.string = << "\"", "'" >>]

SGMLCodeLanguage == [BaseCodeLanguage EXCEPT !.sgml = TRUE]

\* CodeLanguage.factory
Factory(code_name) ==
    CASE code_name = LANG_PYTHON -> PythonCodeLanguage
      [] code_name = LANG_PHP -> PHPCodeLanguage
      [] code_name = LANG_SGML -> SGMLCodeLanguage
      [] code_name = LANG_HTML -> SGMLCodeLanguage
      [] code_name = LANG_XML -> SGMLCodeLanguage
      [] code_name = LANG_STANDARD -> BaseCodeLanguage
      [] code_name = LANG_SHELL -> ShellCodeLanguage

\* Parser.SUPPORTED_FILE_TYPES: a dict literal, so of two equal keys (C and
\* JAVA, HTML and SGML) the later entry's value stays
SUPPORTED_FILE_TYPES ==
    (MIME_C :> LANG_STANDARD) @@ (MIME_C_PLUS_PLUS :> LANG_STANDARD) @@
    (MIME_XML :> LANG_XML) @@ (MIME_SGML :> LANG_SGML) @@
    (MIME_PYTHON :> LANG_PYTHON) @@ (MIME_SHELL :> LANG_SHELL) @@
    (MIME_PHP :> LANG_PHP)

\* Parser.__init__: the loop over the registry's keys
Supported(type) == \E t \in DOMAIN SUPPORTED_FILE_TYPES : t = type

CodeLanguageOf(type) == Factory(SUPPORTED_FILE_TYPES[type])

(***************************************************************************)
(* BaseCodeLanguage.parse                                                  *)
(***************************************************************************)
\* the closures of parse; buf is multiline_comment_buffer
IsCurrentlyMultiLineComment(lang, buf) == lang.has_multiline /\ buf # << >>

\* IsSingleLineComment without the test of the buffer
IsSingleLineCommentInBlock(lang, buf, text) ==
    /\ StartsWith(text, lang.slc_header)
    /\ lang.slc_footer = << >>

IsSingleLineComment(lang, buf, text) ==
    /\ ~IsCurrentlyMultiLineComment(lang, buf)
    /\ StartsWith(text, lang.slc_header)
    /\ lang.slc_footer = << >>

\* IsSingleLineCommentMultilineNotation left out of the rules
IsSingleLineCommentMultilineNotationLeftOut(lang, buf, text) == FALSE

IsSingleLineCommentMultilineNotation(lang, buf, text) ==
    /\ lang.has_multiline
    /\ ~IsCurrentlyMultiLineComment(lang, buf)
    /\ StartsWith(text, lang.mlc_header)
    /\ EndsWith(text, lang.mlc_footer)
    /\ Len(text) >= Len(lang.mlc_header \o lang.mlc_footer)

IsMultiLineCommentStart(lang, buf, text) ==
    /\ lang.has_multiline
    /\ ~IsCurrentlyMultiLineComment(lang, buf)
    /\ StartsWith(text, lang.mlc_header)

IsMultiLineCommentMidst(lang, buf, text) ==
    /\ lang.has_multiline
    /\ IsCurrentlyMultiLineComment(lang, buf)
    /\ ~StartsWith(text, lang.mlc_header)
    /\ ~EndsWith(text, lang.mlc_footer)
    /\ (lang.mlc_middle = << >> \/ StartsWith(text, lang.mlc_middle))

\* IsMultiLineCommentEnd without the test of the buffer
IsMultiLineCommentEndAnywhere(lang, buf, text) ==
    /\ lang.has_multiline
    /\ EndsWith(text, lang.mlc_footer)

IsMultiLineCommentEnd(lang, buf, text) ==
    /\ lang.has_multiline
    /\ IsCurrentlyMultiLineComment(lang, buf)
    /\ EndsWith(text, lang.mlc_footer)

\* re.findall('Q(.*(?<!\)))Q', text): the pattern the format call builds is
\* a quote, a greedy group whose last character is not ")", and a quote.
\* Matches are found left to right and do not overlap; each gives its group.
RECURSIVE FindAllFrom(_, _, _)
FindAllFrom(text, quote, pos) ==
    LET closers(i) == {j \in (i + 1)..Len(text) : text[j] = quote /\ text[j - 1] # ")"}
        starts == {i \in pos..Len(text) : text[i] = quote /\ closers(i) # {}}
    IN  IF starts = {} THEN << >>
        ELSE LET i == CHOOSE a \in starts : \A b \in starts : a <= b
                 j == CHOOSE a \in closers(i) : \A b \in closers(i) : b <= a
             IN  <<SubSeq(text, i + 1, j - 1)>> \o FindAllFrom(text, quote, j + 1)

FindAll(text, quote) == FindAllFrom(text, quote, 1)

\* the loop over self.STRING at the end of the loop body
RECURSIVE StringsOfLine(_, _, _)
StringsOfLine(quotes, text, line_number) ==
    IF quotes = << >> THEN << >>
    ELSE LET found == FindAll(text, Head(quotes))
         IN  [k \in 1..Len(found) |-> StringLiteral(found[k], line_number)]
             \o StringsOfLine(Tail(quotes), text, line_number)

\* ScanLine that leaves out the lines that begin a comment
ScanLineCodeOnly(lang, include_strings, text, line_number) ==
    IF include_strings /\ ~StartsWith(text, lang.slc_header)
                       /\ ~(lang.has_multiline /\ StartsWith(text, lang.mlc_header))
    THEN StringsOfLine(lang.string, text, line_number)
    ELSE << >>

\* the "if include_strings" block that ends the loop body: it stands after
\* the chain of comment rules and reads none of their state
ScanLine(lang, include_strings, text, line_number) ==
    IF include_strings THEN StringsOfLine(lang.string, text, line_number) ELSE << >>

\* FlushBuffer with the first and the last line number exchanged
FlushBufferSwapped(buf) ==
    Comment([k \in 1..Len(buf) |-> buf[k][1]], buf[Len(buf)][2], buf[1][2])

\* FlushBuffer with the default start_line of Comment.parse
FlushBufferFromZero(buf) ==
    Comment([k \in 1..Len(buf) |-> buf[k][1]], 0, buf[Len(buf)][2])

\* the Comment a flushed buffer gives: zip(*buffer), first and last line number
FlushBuffer(buf) ==
    Comment([k \in 1..Len(buf) |-> buf[k][1]], buf[1][2], buf[Len(buf)][2])

\* One pass of the loop body for the physical line `raw` numbered line_number.
\* Gives the buffer after the line and the items the generator yields for it.
ParseLineStep(lang, include_strings, buf, raw, line_number) ==
    LET text == Strip(raw)
        strings == ScanLine(lang, include_strings, text, line_number)
    IN  IF text = << >> THEN [buf |-> buf, yielded |-> << >>]
        ELSE IF IsSingleLineComment(lang, buf, text)
        THEN [buf |-> buf,
              yielded |-> <<Comment(<<Strip(Split(text, lang.slc_header)[2])>>,
                                    line_number, line_number)>> \o strings]
        ELSE IF IsSingleLineCommentMultilineNotation(lang, buf, text)
        THEN [buf |-> buf,
              yielded |-> <<Comment(<<Strip(RSplit(Split(text, lang.mlc_header)[2],
                                                   lang.mlc_footer)[1])>>,
                                    line_number, line_number)>> \o strings]
        ELSE IF ~lang.has_multiline
        THEN [buf |-> buf, yielded |-> strings]
        ELSE IF IsMultiLineCommentStart(lang, buf, text)
        THEN [buf |-> Append(buf, <<Strip(Split(text, lang.mlc_header)[2]), line_number>>),
              yielded |-> strings]
        ELSE IF IsMultiLineCommentMidst(lang, buf, text)
        THEN [buf |-> Append(buf, <<IF lang.mlc_middle # << >>
                                    THEN Strip(Split(text, lang.mlc_middle)[2])
                                    ELSE text, line_number>>),
              yielded |-> strings]
        ELSE IF IsMultiLineCommentEnd(lang, buf, text)
        THEN [buf |-> << >>,
              yielded |-> <<FlushBuffer(Append(buf,
                              <<Strip(RSplit(text, lang.mlc_footer)[1]), line_number>>))>>
                          \o strings]
        ELSE [buf |-> buf, yielded |-> strings]

\* AtEndOfInput flushing an unterminated block comment
AtEndOfInputFlush(buf) == IF buf = << >> THEN << >> ELSE <<FlushBuffer(buf)>>

\* What the generator yields once the loop has read the last line: nothing,
\* whatever the buffer holds.
AtEndOfInput(buf) == << >>

\* what the generator yields for the lines from n on, entered with buffer buf
RECURSIVE LexLines(_, _, _, _, _)
LexLines(lang, inc, buf, lines, n) ==
    IF n > Len(lines) THEN << >>
    ELSE LET step == ParseLineStep(lang, inc, buf, lines[n], n)
         IN  step.yielded \o LexLines(lang, inc, step.buf, lines, n + 1)

(***************************************************************************)
(* do_collapse_singleline_comments.  A call's locals are the record        *)
(* [iterator, comment, result, finished]; iterator is what is left of the  *)
(* argument.                                                               *)
(***************************************************************************)
NoComment == [kind |-> "None"]

\* Adjacent with "<" for "<="
AdjacentStrict(comment, next_comment) == next_comment.start_line - comment.end_line < 1

\* the merge criterion of the loop
Adjacent(comment, next_comment) == next_comment.start_line - comment.end_line <= 1

\* the code up to the loop: result = [], comment = next(iterator); on
\* StopIteration the empty result is returned at once
CollapseEnter(comments) ==
    IF comments = << >>
    THEN [iterator |-> << >>, comment |-> NoComment, result |-> << >>, finished |-> TRUE]
    ELSE [iterator |-> Tail(comments), comment |-> Head(comments), result |-> << >>,
          finished |-> FALSE]

\* CollapseIteration without the result.append(comment) of the except clause
CollapseIterationNoFinalFlush(st) ==
    IF st.iterator = << >>
    THEN [st EXCEPT !.finished = TRUE]
    ELSE LET next_comment == Head(st.iterator)
         IN  IF Adjacent(st.comment, next_comment)
             THEN [st EXCEPT !.iterator = Tail(st.iterator),
                             !.comment = CommentAppend(st.comment, next_comment)]
             ELSE [st EXCEPT !.iterator = Tail(st.iterator),
                             !.result = Append(st.result, st.comment),
                             !.comment = next_comment]

\* one iteration of "while not finished"
CollapseIteration(st) ==
    IF st.iterator = << >>
    THEN [st EXCEPT !.result = Append(st.result, st.comment), !.finished = TRUE]
    ELSE LET next_comment == Head(st.iterator)
         IN  IF Adjacent(st.comment, next_comment)
             THEN [st EXCEPT !.iterator = Tail(st.iterator),
                             !.comment = CommentAppend(st.comment, next_comment)]
             ELSE [st EXCEPT !.iterator = Tail(st.iterator),
                             !.result = Append(st.result, st.comment),
                             !.comment = next_comment]

RECURSIVE CollapseRun(_)
CollapseRun(st) == IF st.finished THEN st.result ELSE CollapseRun(CollapseIteration(st))

\* the whole call
DoCollapseSinglelineComments(comments) == CollapseRun(CollapseEnter(comments))

(***************************************************************************)
(* extract_comments_and_strings: the part after the lexer                  *)
(***************************************************************************)
\* list.sort(key=...): stable, ascending
RECURSIVE InsertByKey(_, _)
InsertByKey(sorted, item) ==
    IF sorted = << >> THEN <<item>>
    ELSE IF LastLineNumber(sorted[Len(sorted)]) <= LastLineNumber(item)
    THEN Append(sorted, item)
    ELSE Append(InsertByKey(SubSeq(sorted, 1, Len(sorted) - 1), item), sorted[Len(sorted)])

\* SortByLastLineNumber with the sort call left out
NotSorted(items) == items

RECURSIVE SortByLastLineNumber(_)
SortByLastLineNumber(items) ==
    IF items = << >> THEN << >>
    ELSE InsertByKey(SortByLastLineNumber(SubSeq(items, 1, Len(items) - 1)),
                     items[Len(items)])

\* the partition loop: the Comments and the rest, each in order
OnlyComments(items) == SelectSeq(items, IsComment)
OnlyStrings(items) == SelectSeq(items, LAMBDA item : ~IsComment(item))

\* strings + comments, the list that is sorted
Combined(strings, comments) == strings \o comments

\* the "if collapse_singleline_comments" block
CollapseAndSort(items) ==
    SortByLastLineNumber(
        Combined(OnlyStrings(items), DoCollapseSinglelineComments(OnlyComments(items))))

\* result = [str(item) for item in parsed_content]
Stringify(items) == [k \in 1..Len(items) |-> Str(items[k])]

(***************************************************************************)
(* SGMLCodeLanguage.parse.  The document is given as the text nodes the    *)
(* tree parser finds, in document order: soup.find_all is the library's.   *)
(***************************************************************************)
IsSoupComment(node) == node.kind = "comment"

\* SGMLParse that numbers an item by the place of its node in the document
SGMLParseOrdinal(nodes, include_strings) ==
    LET places == [k \in 1..Len(nodes) |-> k]
        found_comments == SelectSeq(places, LAMBDA k : IsSoupComment(nodes[k]))
        found_strings == SelectSeq(places, LAMBDA k : ~IsSoupComment(nodes[k])
                                                      /\ nodes[k].text # <<"\n">>)
        comments == [k \in 1..Len(found_comments) |->
                        Comment(SplitLines(nodes[found_comments[k]].text),
                                found_comments[k], found_comments[k])]
        strings == [k \in 1..Len(found_strings) |->
                       StringLiteral(nodes[found_strings[k]].text, found_strings[k])]
    IN  IF include_strings THEN comments \o strings ELSE comments

SGMLParse(nodes, include_strings) ==
    LET found_comments == SelectSeq(nodes, IsSoupComment)
        found_strings == SelectSeq(nodes, LAMBDA n : ~IsSoupComment(n) /\ n.text # <<"\n">>)
        comments == [k \in 1..Len(found_comments) |-> CommentParse(found_comments[k].text)]
        strings == [k \in 1..Len(found_strings) |-> StringLiteral(found_strings[k].text, 0)]
    IN  IF include_strings THEN comments \o strings ELSE comments

\* extract_comments_and_strings as a whole
ExtractCommentsAndStrings(content, type, include_strings, collapse_singleline_comments) ==
    IF ~Supported(type) THEN << >>
    ELSE LET lang == CodeLanguageOf(type)
             parsed == IF lang.sgml THEN SGMLParse(content, include_strings)
                       ELSE LexLines(lang, include_strings, << >>, content, 1)
         IN  Stringify(IF collapse_singleline_comments THEN CollapseAndSort(parsed)
                       ELSE parsed)

(***************************************************************************)
(* The inputs of the model: for each MIME type the physical lines a        *)
(* content is made of, and the nodes of a markup document.                 *)
(***************************************************************************)
StandardLines ==
    {<<"/", "/", " ", "a">>,
     <<"/", "/", " ", "b">>,
     <<"/", "/", "\"", "s", "\"">>,
     << >>,
     <<"/", "*", " ", "a">>,
     <<"b", " ", "*", "/">>,
     <<"x">>,
     <<"\"", "s", "\"">>,
     <<" ", "x", " ", "/", "/", " ", "a">>,
     <<"/", "*", " ", "a", " ", "*", "/">>,
     <<"\"", "s">>,
     <<"/", "*", "/">>,
     <<"\"", "s", "\"", " ", "\"", "t", "\"">>}

PythonLines ==
    {<<"#", " ", "a">>,
     <<"\"", "\"", "\"">>,
     <<"a">>,
     <<"a", " ", "\"", "\"", "\"">>,
     <<"\"", "\"", "\"", "d", "\"", "\"", "\"">>,
     <<"'", "s", "'">>,
     << >>,
     <<"x", " ", "#", " ", "a">>}

ShellLines ==
    {<<"#", " ", "a">>,
     <<"#", "\"", "s", "\"">>,
     <<"x">>,
     << >>,
     <<"/", "*", " ", "a">>,
     <<"#", " ", "a", " ", "#", " ", "b">>}

PHPLines ==
    {<<"/", "/", " ", "a">>,
     <<"/", "*", "*">>,
     <<"*", " ", "a">>,
     <<"*", "/">>,
     <<"a">>,
     <<"*", " ", "a", " ", "*", " ", "b">>,
     << >>,
     <<"'", "s", "'">>,
     <<"*", " ", "b", " ", "*", "/">>,
     <<"/", "*", "*", " ", "a", " ", "*", "/">>}

FewLines ==
    {<<"/", "/", " ", "a">>,
     <<"x">>}

MarkupNodes ==
    {[kind |-> "comment", text |-> <<"a">>],
     [kind |-> "comment", text |-> <<"a", "\n", "b">>],
     [kind |-> "comment", text |-> << >>],
     [kind |-> "text", text |-> <<"t">>],
     [kind |-> "text", text |-> <<"\n">>]}

\* the sequences over S of length at most n
SeqUpTo(S, n) == UNION {[1..k -> S] : k \in 0..n}

MimeTypes ==
    {MIME_C, MIME_C_PLUS_PLUS, MIME_HTML, MIME_XML, MIME_PYTHON, MIME_SHELL, MIME_PHP,
     MIME_UNKNOWN, MIME_OTHER}

IsMarkup(t) == t \in {MIME_HTML, MIME_XML, MIME_SGML}

Contents(t) ==
    CASE t = MIME_C -> SeqUpTo(StandardLines, MaxLines)
      [] t = MIME_PYTHON -> SeqUpTo(PythonLines, MaxLines)
      [] t = MIME_SHELL -> SeqUpTo(ShellLines, MaxLines)
      [] t = MIME_PHP -> SeqUpTo(PHPLines, MaxLines)
      [] IsMarkup(t) -> SeqUpTo(MarkupNodes, MaxNodes)
      [] OTHER -> SeqUpTo(FewLines, MaxLines)

(***************************************************************************)
(* State                                                                   *)
(***************************************************************************)
VARIABLES
    entry,                         \* "extract" or "extract_comments_and_strings"
    type, content, include_strings, collapse_singleline_comments,   \* the arguments
    pc,                            \* where the call is
    line_number,                   \* the number of the next line of the loop
    multiline_comment_buffer,      \* the lexer's buffer
    yielded,                       \* what the generator has yielded so far
    parsed_content,                \* the local of extract_comments_and_strings
    result,                        \* the list returned
    raised,                        \* the exception that left the call, or "none"
    \* a call of do_collapse_singleline_comments on its own
    m_pc,                          \* where that call is
    comments,                      \* its argument
    locals,                        \* its locals: iterator, comment, result, finished
    pass,                          \* 1, or 2 when the argument is the first call's result
    first_result,                  \* what the first call returned
    \* the relevance filter
    literals,                      \* the argument of both functions
    calls,                         \* which of the two functions have returned
    license_text,                  \* what extract_license_related_text returned
    no_license_text                \* what extract_no_license_related_text returned

VARIABLES
    \* two calls of extract_comments_and_strings whose steps interleave
    registry,                      \* Parser.SUPPORTED_FILE_TYPES, a class attribute
    call,                          \* per call: its arguments and locals
    buffers                        \* per call: its multiline_comment_buffer

VARIABLES
    \* a call of utils.get_file_type_from_stream and the extraction that follows
    stream,                        \* the argument: None or the content read
    magic_outcome,                 \* what magic.from_buffer does with it
    d_pc,                          \* where the call is
    file_type,                     \* the type returned
    d_raised,                      \* the exception that left the call, or "none"
    d_result                       \* what the extractor returns for that type

VARIABLES
    \* cli.main on the files of input_path
    files,                         \* utils.get_file_list(input_path)
    b_pc,                          \* where main is
    b_index,                       \* the place in files of the next file
    b_predicted,                   \* the PredictionResults returned so far
    b_output,                      \* the results printed
    b_raised                       \* the exception that left main, or "none"

VARIABLES
    \* a call of SKLearnPipeline.predict
    words,                         \* what preprocessor.process returns
    dual_returns,                  \* what dual_problem.predict returns
    single_returns,                \* what single_label_problem.predict returns
    multi_returns,                 \* what multi_label_problem.predict returns
    p_pc,                          \* where the call is
    p_consulted,                   \* the problems whose predict was called, in order
    p_result                       \* the list returned

VARIABLES
    \* a call of SKLearnPipeline.save
    problems_arg,                  \* the argument: None or a list of problems
    single_label_problem, multi_label_problem, dual_problem,   \* None or a problem
    license_text_lookup,           \* the names of the license texts held
    config_parser,                 \* the sections of the config parser
    config_before,                 \* its sections when save is called
    saved,                         \* what save has written below dataloader.path
    s_pc,                          \* where the call is
    s_raised                       \* the exception raised, or None

VARIABLES
    \* a call of Preprocessor.process
    raw_text,                      \* the argument: the text of the file
    pr_type,                       \* the argument file_type
    pr_pc,                         \* where the call is
    license_related_words,         \* the local of process: None or a list
    pr_result                      \* what process returns

VARIABLES
    \* a call of SpecialSKLearnPipeline.predict
    special_case_problems,         \* the dict: its cases in order, and what each predicts
    base_result,                   \* what super().predict returns
    sp_pc,                         \* where the call is
    sp_index,                      \* the place of the loop running
    precise_labels,                \* the dict of the first loop
    mapped_result                  \* the list of the second loop, which is returned

VARIABLES
    \* PipelineFactory.build_model, and main's use of what it returns
    config_pipeline,               \* the option pipeline of the section rigel, or None
    cases_option,                  \* the option cases of the section special-cases
    input_files,                   \* how many files main is to predict
    f_pc,                          \* where the call is
    pipeline,                      \* the pipeline object constructed, or None
    build_returns,                 \* what build_model returns
    f_predicted,                   \* how many files are predicted
    f_raised                       \* the exception raised, or None

extractVars ==
    <<entry, type, content, include_strings, collapse_singleline_comments, pc,
      line_number, multiline_comment_buffer, yielded, parsed_content, result, raised>>

mergeVars == <<m_pc, comments, locals, pass, first_result>>

filterVars == <<literals, calls, license_text, no_license_text>>

concurrentVars == <<registry, call, buffers>>

\* the state of the parts of the program described further down
detectVars == <<stream, magic_outcome, d_pc, file_type, d_raised, d_result>>

batchVars == <<files, b_pc, b_index, b_predicted, b_output, b_raised>>

predictVars ==
    <<words, dual_returns, single_returns, multi_returns, p_pc, p_consulted, p_result>>

saveVars ==
    <<problems_arg, single_label_problem, multi_label_problem, dual_problem,
      license_text_lookup, config_parser, config_before, saved, s_pc, s_raised>>

processVars == <<raw_text, pr_type, pr_pc, license_related_words, pr_result>>

specialVars ==
    <<special_case_problems, base_result, sp_pc, sp_index, precise_labels, mapped_result>>

factoryVars ==
    <<config_pipeline, cases_option, input_files, f_pc, pipeline, build_returns,
      f_predicted, f_raised>>

lastVars == <<processVars, specialVars, factoryVars>>

laterVars == <<concurrentVars, detectVars, batchVars, predictVars, saveVars, lastVars>>

vars == <<extractVars, mergeVars, filterVars, laterVars>>

args == <<entry, type, content, include_strings, collapse_singleline_comments>>

\* no call of the merge pass on its own
MergeIdle ==
    /\ m_pc = "idle"
    /\ comments = << >>
    /\ locals = CollapseEnter(<< >>)
    /\ pass = 1
    /\ first_result = << >>

\* no call of the relevance filter
FilterIdle ==
    /\ literals = << >>
    /\ calls = {}
    /\ license_text = << >>
    /\ no_license_text = << >>

\* no call of the extractor
ExtractIdle ==
    /\ entry = "none"
    /\ type = MIME_UNKNOWN
    /\ content = << >>
    /\ include_strings = FALSE
    /\ collapse_singleline_comments = FALSE
    /\ pc = "idle"
    /\ line_number = 1
    /\ multiline_comment_buffer = << >>
    /\ yielded = << >>
    /\ parsed_content = << >>
    /\ result = << >>
    /\ raised = "none"

\* the two calls that interleave
CallIds == {1, 2}

\* no interleaved calls
ConcurrentIdle ==
    /\ registry = SUPPORTED_FILE_TYPES
    /\ call = [id \in CallIds |-> [pc |-> "idle"]]
    /\ buffers = [id \in CallIds |-> << >>]

\* None
None == [kind |-> "None"]

\* no call of get_file_type_from_stream
DetectIdle ==
    /\ stream = None
    /\ magic_outcome = None
    /\ d_pc = "idle"
    /\ file_type = MIME_UNKNOWN
    /\ d_raised = "none"
    /\ d_result = << >>

\* no call of cli.main
BatchIdle ==
    /\ files = << >>
    /\ b_pc = "idle"
    /\ b_index = 1
    /\ b_predicted = << >>
    /\ b_output = << >>
    /\ b_raised = "none"

\* no call of SKLearnPipeline.predict
PredictIdle ==
    /\ words = << >>
    /\ dual_returns = << >>
    /\ single_returns = << >>
    /\ multi_returns = << >>
    /\ p_pc = "idle"
    /\ p_consulted = << >>
    /\ p_result = << >>

\* no call of SKLearnPipeline.save
SaveIdle ==
    /\ problems_arg = None
    /\ single_label_problem = None
    /\ multi_label_problem = None
    /\ dual_problem = None
    /\ license_text_lookup = {}
    /\ config_parser = {}
    /\ config_before = {}
    /\ saved = {}
    /\ s_pc = "idle"
    /\ s_raised = None

\* no call of Preprocessor.process
ProcessIdle ==
    /\ raw_text = << >>
    /\ pr_type = MIME_UNKNOWN
    /\ pr_pc = "idle"
    /\ license_related_words = None
    /\ pr_result = None

\* no call of SpecialSKLearnPipeline.predict
SpecialIdle ==
    /\ special_case_problems = << >>
    /\ base_result = << >>
    /\ sp_pc = "idle"
    /\ sp_index = 1
    /\ precise_labels = << >>
    /\ mapped_result = << >>

\* no call of PipelineFactory.build_model
FactoryIdle ==
    /\ config_pipeline = None
    /\ cases_option = << >>
    /\ input_files = 0
    /\ f_pc = "idle"
    /\ pipeline = None
    /\ build_returns = None
    /\ f_predicted = 0
    /\ f_raised = None

LastIdle == ProcessIdle /\ SpecialIdle /\ FactoryIdle

LaterIdle == ConcurrentIdle /\ DetectIdle /\ BatchIdle /\ PredictIdle /\ SaveIdle /\ LastIdle

Init ==
    /\ MergeIdle
    /\ FilterIdle
    /\ LaterIdle
    /\ entry \in {"extract", "extract_comments_and_strings"}
    /\ type \in MimeTypes
    /\ content \in Contents(type)
    /\ include_strings \in BOOLEAN
    /\ collapse_singleline_comments \in BOOLEAN
    /\ pc = "call"
    /\ line_number = 1
    /\ multiline_comment_buffer = << >>
    /\ yielded = << >>
    /\ parsed_content = << >>
    /\ result = << >>
    /\ raised = "none"

\* ParserInit with the except clause of extract_comments_and_strings left out
ParserInitNoCatch ==
    /\ pc = "call"
    /\ IF Supported(type)
       THEN /\ pc' = IF entry = "extract" THEN "returned" ELSE "parse"
            /\ UNCHANGED <<result, raised>>
       ELSE /\ pc' = "raised"
            /\ raised' = "CodeLanguageUnsupported"
            /\ UNCHANGED result
    /\ UNCHANGED <<args, line_number, multiline_comment_buffer, yielded, parsed_content>>
    /\ UNCHANGED <<mergeVars, filterVars, laterVars>>

\* Parser.__init__ as extract and extract_comments_and_strings call it: an
\* unsupported type raises CodeLanguageUnsupported, which only the second
\* catches, returning []
ParserInit ==
    /\ pc = "call"
    /\ IF Supported(type)
       THEN /\ pc' = IF entry = "extract" THEN "returned" ELSE "parse"
            /\ UNCHANGED <<result, raised>>
       ELSE IF entry = "extract"
       THEN /\ pc' = "raised"
            /\ raised' = "CodeLanguageUnsupported"
            /\ UNCHANGED result
       ELSE /\ pc' = "done"
            /\ result' = << >>
            /\ UNCHANGED raised
    /\ UNCHANGED <<args, line_number, multiline_comment_buffer, yielded, parsed_content>>
    /\ UNCHANGED <<mergeVars, filterVars, laterVars>>

\* BaseCodeLanguage.parse: the loop body for one physical line
ParseLine ==
    /\ pc = "parse"
    /\ ~CodeLanguageOf(type).sgml
    /\ line_number <= Len(content)
    /\ LET step == ParseLineStep(CodeLanguageOf(type), include_strings,
                                 multiline_comment_buffer, content[line_number],
                                 line_number)
       IN  /\ multiline_comment_buffer' = step.buf
           /\ yielded' = yielded \o step.yielded
    /\ line_number' = line_number + 1
    /\ UNCHANGED <<args, pc, parsed_content, result, raised>>
    /\ UNCHANGED <<mergeVars, filterVars, laterVars>>

\* SGMLCodeLanguage.parse
ParseSGML ==
    /\ pc = "parse"
    /\ CodeLanguageOf(type).sgml
    /\ yielded' = SGMLParse(content, include_strings)
    /\ pc' = "parsed"
    /\ UNCHANGED <<args, line_number, multiline_comment_buffer, parsed_content, result,
                   raised>>
    /\ UNCHANGED <<mergeVars, filterVars, laterVars>>

\* the generator is exhausted: the loop has read every line
Exhausted ==
    \/ pc = "parsed"
    \/ pc = "parse" /\ ~CodeLanguageOf(type).sgml /\ line_number > Len(content)

\* extract_comments_and_strings once list(Parser(...)) has returned
Finish ==
    /\ Exhausted
    /\ yielded' = IF CodeLanguageOf(type).sgml
                  THEN yielded
                  ELSE yielded \o AtEndOfInput(multiline_comment_buffer)
    /\ parsed_content' = IF collapse_singleline_comments
                         THEN CollapseAndSort(yielded')
                         ELSE yielded'
    /\ result' = Stringify(parsed_content')
    /\ pc' = "done"
    /\ UNCHANGED <<args, line_number, multiline_comment_buffer, raised>>
    /\ UNCHANGED <<mergeVars, filterVars, laterVars>>

Next == ParserInit \/ ParseLine \/ ParseSGML \/ Finish

Spec == Init /\ [][Next]_vars

(***************************************************************************)
(* The merge pass called on its own, on any sequence of Comments, and then *)
(* once more on what it returned.                                          *)
(***************************************************************************)
\* the text of the physical line numbered n of a block comment
LineLetters == <<"z", "a", "b", "c", "d", "e", "f", "g">>
LineText(n) == <<LineLetters[n + 1]>>

\* the Comments the lexer can build: a single-line comment "a" or "b" of any
\* line, and a block comment of the lines start..end
CommentPool ==
    {Comment(<<body>>, n, n) : body \in {<<"a">>, <<"b">>}, n \in 0..MaxLineNo}
    \cup
    {Comment([k \in 1..(p[2] - p[1] + 1) |-> LineText(p[1] + k - 1)], p[1], p[2]) :
        p \in {q \in (0..MaxLineNo) \X (0..MaxLineNo) : q[1] < q[2]}}

InitMerge ==
    /\ ExtractIdle
    /\ FilterIdle
    /\ LaterIdle
    /\ m_pc = "call"
    /\ comments \in SeqUpTo(CommentPool, MaxComments)
    /\ locals = CollapseEnter(<< >>)
    /\ pass = 1
    /\ first_result = << >>

\* do_collapse_singleline_comments up to its loop
CollapseCall ==
    /\ m_pc = "call"
    /\ locals' = CollapseEnter(comments)
    /\ m_pc' = IF locals'.finished THEN "returned" ELSE "loop"
    /\ UNCHANGED <<comments, pass, first_result, extractVars, filterVars, laterVars>>

\* one iteration of its loop; the iteration that meets StopIteration returns
CollapseLoop ==
    /\ m_pc = "loop"
    /\ locals' = CollapseIteration(locals)
    /\ m_pc' = IF locals'.finished THEN "returned" ELSE "loop"
    /\ UNCHANGED <<comments, pass, first_result, extractVars, filterVars, laterVars>>

\* the caller hands the list returned to do_collapse_singleline_comments again
CollapseAgain ==
    /\ m_pc = "returned"
    /\ pass = 1
    /\ first_result' = locals.result
    /\ comments' = locals.result
    /\ pass' = 2
    /\ m_pc' = "call"
    /\ UNCHANGED <<locals, extractVars, filterVars, laterVars>>

NextMerge == CollapseCall \/ CollapseLoop \/ CollapseAgain

SpecMerge == InitMerge /\ [][NextMerge]_vars

(***************************************************************************)
(* preprocessor.py: the relevance filter                                   *)
(***************************************************************************)
UpperLetters ==
    <<"A", "B", "C", "D", "E", "F", "G", "H", "I", "J", "K", "L", "M",
      "N", "O", "P", "Q", "R", "S", "T", "U", "V", "W", "X", "Y", "Z">>
LowerLetters ==
    <<"a", "b", "c", "d", "e", "f", "g", "h", "i", "j", "k", "l", "m",
      "n", "o", "p", "q", "r", "s", "t", "u", "v", "w", "x", "y", "z">>

\* re.IGNORECASE: a letter matches in either case
LowerChar(c) ==
    IF \E i \in 1..Len(UpperLetters) : UpperLetters[i] = c
    THEN LowerLetters[CHOOSE i \in 1..Len(UpperLetters) : UpperLetters[i] = c]
    ELSE c

LowerText(text) == [i \in 1..Len(text) |-> LowerChar(text[i])]

\* Preprocessor.LRW_PATTERN: licen|copyright|\(c\)|public domain
LRW_PATTERN ==
    {<<"l", "i", "c", "e", "n">>,
     <<"c", "o", "p", "y", "r", "i", "g", "h", "t">>,
     <<"(", "c", ")">>,
     <<"p", "u", "b", "l", "i", "c", " ", "d", "o", "m", "a", "i", "n">>}

\* Search without re.IGNORECASE
SearchCaseSensitive(literal) ==
    \E alternative \in LRW_PATTERN : FindFirst(literal, alternative) # 0

\* re_pattern.search(literal)
Search(literal) ==
    \E alternative \in LRW_PATTERN : FindFirst(LowerText(literal), alternative) # 0

\* the condition under which extract_license_related_text appends a literal
KeepsLicenseRelated(literal) == Search(literal)

\* KeepsNoLicenseRelated without the "not"
KeepsNoLicenseRelatedNegationLost(literal) == Search(literal)

\* the condition under which extract_no_license_related_text appends a literal
KeepsNoLicenseRelated(literal) == ~Search(literal)

\* Preprocessor.extract_license_related_text
RECURSIVE ExtractLicenseRelatedText(_)
ExtractLicenseRelatedText(lits) ==
    IF lits = << >> THEN << >>
    ELSE (IF KeepsLicenseRelated(Head(lits)) THEN Head(lits) \o <<"\n">> ELSE << >>)
         \o ExtractLicenseRelatedText(Tail(lits))

\* Preprocessor.extract_no_license_related_text
RECURSIVE ExtractNoLicenseRelatedText(_)
ExtractNoLicenseRelatedText(lits) ==
    IF lits = << >> THEN << >>
    ELSE (IF KeepsNoLicenseRelated(Head(lits)) THEN Head(lits) \o <<"\n">> ELSE << >>)
         \o ExtractNoLicenseRelatedText(Tail(lits))

\* the literals the filter is given: what the extractor returns
LiteralPool ==
    {<<"T", "h", "i", "s", " ", "i", "s", " ", "M", "I", "T", " ", "l", "i", "c", "e", "n", "s", "e", "d">>,
     <<"f", "o", "o", "(", ")">>,
     <<"C", "o", "p", "y", "r", "i", "g", "h", "t", " ", "2", "0", "2", "0">>,
     <<"(", "C", ")">>,
     <<"P", "u", "b", "l", "i", "c", " ", "D", "o", "m", "a", "i", "n">>,
     <<"l", "i", "c", "e">>,
     <<"a", "\n", "b">>}

InitFilter ==
    /\ ExtractIdle
    /\ MergeIdle
    /\ LaterIdle
    /\ literals \in SeqUpTo(LiteralPool, MaxLiterals)
    /\ calls = {}
    /\ license_text = << >>
    /\ no_license_text = << >>

\* a call of extract_license_related_text(literals)
CallExtractLicenseRelatedText ==
    /\ "lrw" \notin calls
    /\ license_text' = ExtractLicenseRelatedText(literals)
    /\ calls' = calls \cup {"lrw"}
    /\ UNCHANGED <<literals, no_license_text, extractVars, mergeVars, laterVars>>

\* a call of extract_no_license_related_text(literals)
CallExtractNoLicenseRelatedText ==
    /\ "no_lrw" \notin calls
    /\ no_license_text' = ExtractNoLicenseRelatedText(literals)
    /\ calls' = calls \cup {"no_lrw"}
    /\ UNCHANGED <<literals, license_text, extractVars, mergeVars, laterVars>>

NextFilter == CallExtractLicenseRelatedText \/ CallExtractNoLicenseRelatedText

SpecFilter == InitFilter /\ [][NextFilter]_vars

(***************************************************************************)
(* Two calls of extract_comments_and_strings from two threads.  A step of  *)
(* the model is a step of one of the calls: Parser.__init__, one pass of   *)
(* the lexer's loop, or the rest of the call once the generator is         *)
(* exhausted.  The registry is the only object the calls have in common.   *)
(***************************************************************************)
ConcurrentLines ==
    {<<"/", "/", " ", "a">>,
     <<"/", "*", " ", "a">>,
     <<"b", " ", "*", "/">>}

ConcurrentTypes == {MIME_C, MIME_UNKNOWN}

\* BufferOf when multiline_comment_buffer is one object for all calls
BufferOfShared(id) == 1

\* the buffer a call works on: multiline_comment_buffer is a local of parse,
\* made anew by every call
BufferOf(id) == id

InitConcurrent ==
    /\ ExtractIdle
    /\ MergeIdle
    /\ LastIdle
    /\ FilterIdle
    /\ DetectIdle
    /\ BatchIdle
    /\ PredictIdle
    /\ SaveIdle
    /\ registry = SUPPORTED_FILE_TYPES
    /\ \E include_both \in BOOLEAN :
           call \in [CallIds ->
                       [type : ConcurrentTypes,
                        content : SeqUpTo(ConcurrentLines, MaxConcurrentLines),
                        include_strings : {include_both},
                        collapse_singleline_comments : {TRUE},
                        pc : {"call"},
                        line_number : {1},
                        yielded : {<< >>},
                        result : {<< >>}]]
    /\ buffers = [id \in CallIds |-> << >>]

notConcurrentVars ==
    <<extractVars, mergeVars, filterVars, detectVars, batchVars, predictVars,
      saveVars,
      lastVars>>

\* Parser.__init__ in the call id, and the except clause of
\* extract_comments_and_strings: the registry is read
CallParserInit(id) ==
    /\ call[id].pc = "call"
    /\ call' = [call EXCEPT ![id].pc =
                   IF \E t \in DOMAIN registry : t = call[id].type
                   THEN "parse" ELSE "done"]
    /\ UNCHANGED <<registry, buffers, notConcurrentVars>>

\* one pass of the lexer's loop in the call id
CallParseLine(id) ==
    /\ call[id].pc = "parse"
    /\ call[id].line_number <= Len(call[id].content)
    /\ LET c == call[id]
           step == ParseLineStep(Factory(registry[c.type]), c.include_strings,
                                 buffers[BufferOf(id)], c.content[c.line_number],
                                 c.line_number)
       IN  /\ buffers' = [buffers EXCEPT ![BufferOf(id)] = step.buf]
           /\ call' = [call EXCEPT ![id].yielded = c.yielded \o step.yielded,
                                   ![id].line_number = c.line_number + 1]
    /\ UNCHANGED <<registry, notConcurrentVars>>

\* the rest of the call id once its generator is exhausted
CallFinish(id) ==
    /\ call[id].pc = "parse"
    /\ call[id].line_number > Len(call[id].content)
    /\ LET c == call[id]
           all == c.yielded \o AtEndOfInput(buffers[BufferOf(id)])
           parsed == IF c.collapse_singleline_comments THEN CollapseAndSort(all) ELSE all
       IN  call' = [call EXCEPT ![id].yielded = all,
                                ![id].result = Stringify(parsed),
                                ![id].pc = "done"]
    /\ UNCHANGED <<registry, buffers, notConcurrentVars>>

NextConcurrent ==
    \E id \in CallIds : CallParserInit(id) \/ CallParseLine(id) \/ CallFinish(id)

SpecConcurrent == InitConcurrent /\ [][NextConcurrent]_vars

(***************************************************************************)
(* utils.py: get_file_type_from_stream, and the lenient extractor called   *)
(* with the type it returns.  magic.from_buffer is the library's: it gives *)
(* a description of the content, or raises.                                *)
(***************************************************************************)
\* MagicToMimeType.MAPPING
MAPPING ==
    (<<"C", " ", "s", "o", "u", "r", "c", "e">> :> MIME_C) @@
    (<<"C", "+", "+", " ", "s", "o", "u", "r", "c", "e">> :> MIME_C_PLUS_PLUS) @@
    (<<"H", "T", "M", "L", " ", "d", "o", "c", "u", "m", "e", "n", "t">> :> MIME_HTML) @@
    (<<"X", "M", "L", " ", "1", ".", "0", " ", "d", "o", "c", "u", "m", "e", "n", "t">> :> MIME_XML) @@
    (<<"S", "G", "M", "L", " ", "d", "o", "c", "u", "m", "e", "n", "t">> :> MIME_SGML) @@
    (<<"P", "y", "t", "h", "o", "n", " ", "s", "c", "r", "i", "p", "t">> :> MIME_PYTHON) @@
    (<<"P", "O", "S", "I", "X", " ", "s", "h", "e", "l", "l", " ", "s", "c", "r", "i", "p", "t">> :> MIME_SHELL) @@
    (<<"P", "H", "P", " ", "d", "o", "c", "u", "m", "e", "n", "t">> :> MIME_PHP)

\* str.split(sep, maxsplit=1)[0]: the text before the first sep
SplitOnceFirst(text, sep) ==
    LET i == FindFirst(text, sep)
    IN  IF i = 0 THEN text ELSE SubSeq(text, 1, i - 1)

\* MappingGet with a default that is no attribute of MimeType
MappingGetOtherDefault(raw_value) ==
    IF raw_value \in DOMAIN MAPPING THEN MAPPING[raw_value] ELSE MIME_OTHER

\* MagicToMimeType.MAPPING.get(raw_value, MimeType.UNKNOWN)
MappingGet(raw_value) ==
    IF raw_value \in DOMAIN MAPPING THEN MAPPING[raw_value] ELSE MIME_UNKNOWN

\* "if stream": neither None nor the empty string
Truthy(s) == s # None /\ s.content # << >>

\* get_file_type_from_stream: the type returned, or the exception raised
GetFileTypeFromStream(s, outcome) ==
    IF ~Truthy(s) THEN [returns |-> MIME_UNKNOWN, raises |-> "none"]
    ELSE IF outcome.kind = "ImportError"
    THEN [returns |-> MIME_UNKNOWN, raises |-> "none"]
    ELSE IF outcome.kind = "description"
    THEN [returns |-> MappingGet(SplitOnceFirst(outcome.text, <<",">>)), raises |-> "none"]
    ELSE [returns |-> None, raises |-> outcome.kind]

\* what magic.from_buffer(stream, mime=False) may return
Descriptions ==
    {<<"C", " ", "s", "o", "u", "r", "c", "e", ",", " ", "A", "S", "C", "I", "I", " ", "t", "e", "x", "t">>,
     <<"C", "+", "+", " ", "s", "o", "u", "r", "c", "e", ",", " ", "A", "S", "C", "I", "I", " ", "t", "e", "x", "t">>,
     <<"H", "T", "M", "L", " ", "d", "o", "c", "u", "m", "e", "n", "t", ",", " ", "A", "S", "C", "I", "I", " ", "t", "e", "x", "t">>,
     <<"X", "M", "L", " ", "1", ".", "0", " ", "d", "o", "c", "u", "m", "e", "n", "t", ",", " ", "A", "S", "C", "I", "I", " ", "t", "e", "x", "t">>,
     <<"S", "G", "M", "L", " ", "d", "o", "c", "u", "m", "e", "n", "t", ",", " ", "A", "S", "C", "I", "I", " ", "t", "e", "x", "t">>,
     <<"P", "y", "t", "h", "o", "n", " ", "s", "c", "r", "i", "p", "t", ",", " ", "A", "S", "C", "I", "I", " ", "t", "e", "x", "t", " ", "e", "x", "e", "c", "u", "t", "a", "b", "l", "e">>,
     <<"P", "O", "S", "I", "X", " ", "s", "h", "e", "l", "l", " ", "s", "c", "r", "i", "p", "t", ",", " ", "A", "S", "C", "I", "I", " ", "t", "e", "x", "t", " ", "e", "x", "e", "c", "u", "t", "a", "b", "l", "e">>,
     <<"P", "H", "P", " ", "d", "o", "c", "u", "m", "e", "n", "t">>,
     <<"P", "H", "P", " ", "s", "c", "r", "i", "p", "t", ",", " ", "A", "S", "C", "I", "I", " ", "t", "e", "x", "t">>,
     <<"J", "a", "v", "a", " ", "s", "o", "u", "r", "c", "e", ",", " ", "A", "S", "C", "I", "I", " ", "t", "e", "x", "t">>,
     <<"C", " ", "s", "o", "u", "r", "c", "e">>,
     <<"A", "S", "C", "I", "I", " ", "t", "e", "x", "t">>,
     <<"A", "S", "C", "I", "I", " ", "t", "e", "x", "t", ",", " ", "w", "i", "t", "h", " ", "C", " ", "s", "o", "u", "r", "c", "e">>,
     <<"d", "a", "t", "a">>,
     << >>}

\* what magic.from_buffer may do: return a description, raise ImportError
\* (the library is missing), raise an error of its own
MagicOutcomes ==
    {[kind |-> "description", text |-> d] : d \in Descriptions}
    \cup {[kind |-> "ImportError"], [kind |-> "MagicException"]}

\* the contents a file of the described type may have
StreamsOf(outcome) ==
    LET r == GetFileTypeFromStream([kind |-> "str", content |-> <<"x">>], outcome)
    IN  {None} \cup
        {[kind |-> "str", content |-> c] :
            c \in Contents(IF r.raises = "none" THEN r.returns ELSE MIME_UNKNOWN)}

InitDetect ==
    /\ ExtractIdle
    /\ MergeIdle
    /\ LastIdle
    /\ FilterIdle
    /\ ConcurrentIdle
    /\ BatchIdle
    /\ PredictIdle
    /\ SaveIdle
    /\ magic_outcome \in MagicOutcomes
    /\ stream \in StreamsOf(magic_outcome)
    /\ d_pc = "call"
    /\ file_type = MIME_UNKNOWN
    /\ d_raised = "none"
    /\ d_result = << >>

notDetectVars ==
    <<extractVars, mergeVars, filterVars, concurrentVars, batchVars, predictVars,
      saveVars,
      lastVars>>

\* a call of get_file_type_from_stream(stream)
CallGetFileTypeFromStream ==
    /\ d_pc = "call"
    /\ LET r == GetFileTypeFromStream(stream, magic_outcome)
       IN  IF r.raises = "none"
           THEN /\ file_type' = r.returns
                /\ d_pc' = "returned"
                /\ UNCHANGED d_raised
           ELSE /\ d_raised' = r.raises
                /\ d_pc' = "raised"
                /\ UNCHANGED file_type
    /\ UNCHANGED <<stream, magic_outcome, d_result, notDetectVars>>

\* extract_comments_and_strings(content, file_type) for the content read
CallExtractDetected ==
    /\ d_pc = "returned"
    /\ stream # None
    /\ d_result' = ExtractCommentsAndStrings(stream.content, file_type, TRUE, TRUE)
    /\ d_pc' = "extracted"
    /\ UNCHANGED <<stream, magic_outcome, file_type, d_raised, notDetectVars>>

NextDetect == CallGetFileTypeFromStream \/ CallExtractDetected

SpecDetect == InitDetect /\ [][NextDetect]_vars

(***************************************************************************)
(* cli.py: main.  The files of input_path are predicted one after another  *)
(* by LocalPredictor.predict, inside one try block.  What the pipeline     *)
(* makes of a file is a function of the list the extractor returns for it, *)
(* and that list stands for the prediction here.  The tree parser of a     *)
(* markup file is the library's: it returns the nodes or raises.           *)
(***************************************************************************)
\* a file: the type get_file_type_from_path gives it, its content, and
\* whether BeautifulSoup raises on that content
File(file_type_of, text, raises) ==
    [type |-> file_type_of, content |-> text, parser_raises |-> raises]

FilePool ==
    {File(MIME_C, << <<"/", "/", " ", "a">> >>, FALSE),
     File(MIME_C, << <<"/", "*", " ", "a">>, <<"b", " ", "*", "/">> >>, FALSE),
     File(MIME_UNKNOWN, << <<"/", "/", " ", "a">> >>, FALSE),
     File(MIME_HTML, << [kind |-> "comment", text |-> <<"a">>] >>, FALSE),
     File(MIME_HTML, << [kind |-> "comment", text |-> <<"a">>] >>, TRUE),
     File(MIME_XML, << >>, TRUE)}

\* Preprocessor.process returns [] for an empty text before anything is
\* parsed; SGMLCodeLanguage.parse is reached for a supported markup type only
MarkupParserRaises(f) ==
    /\ f.content # << >>
    /\ Supported(f.type)
    /\ CodeLanguageOf(f.type).sgml
    /\ f.parser_raises

\* what the pipeline is given for a file whose parsing does not raise
PredictFile(f) ==
    IF f.content = << >> THEN << >>
    ELSE ExtractCommentsAndStrings(f.content, f.type, TRUE, TRUE)

\* PredictionResult(file, predicted_licenses)
PredictionResult(filename, licenses) == [filename |-> filename, licenses |-> licenses]

InitBatch ==
    /\ ExtractIdle
    /\ MergeIdle
    /\ LastIdle
    /\ FilterIdle
    /\ ConcurrentIdle
    /\ DetectIdle
    /\ PredictIdle
    /\ SaveIdle
    /\ files \in SeqUpTo(FilePool, MaxFiles)
    /\ b_pc = "call"
    /\ b_index = 1
    /\ b_predicted = << >>
    /\ b_output = << >>
    /\ b_raised = "none"

notBatchVars ==
    <<extractVars, mergeVars, filterVars, concurrentVars, detectVars, predictVars,
      saveVars,
      lastVars>>

\* main up to the list comprehension: the logger, the model, the file list
MainSetup ==
    /\ b_pc = "call"
    /\ b_pc' = "predict"
    /\ UNCHANGED <<files, b_index, b_predicted, b_output, b_raised, notBatchVars>>

\* prediction_logic.predict(file) for the next file.  An exception leaves
\* the list comprehension and the try block: main logs it and raises
\* click.ClickException.
MainPredictFile ==
    /\ b_pc = "predict"
    /\ b_index <= Len(files)
    /\ IF MarkupParserRaises(files[b_index])
       THEN /\ b_pc' = "raised"
            /\ b_raised' = "ClickException"
            /\ UNCHANGED <<b_index, b_predicted>>
       ELSE /\ b_predicted' = Append(b_predicted,
                                     PredictionResult(b_index, PredictFile(files[b_index])))
            /\ b_index' = b_index + 1
            /\ UNCHANGED <<b_pc, b_raised>>
    /\ UNCHANGED <<files, b_output, notBatchVars>>

\* click.secho(utils.to_json(result)) once every file is predicted
MainPrint ==
    /\ b_pc = "predict"
    /\ b_index > Len(files)
    /\ b_output' = b_predicted
    /\ b_pc' = "printed"
    /\ UNCHANGED <<files, b_index, b_predicted, b_raised, notBatchVars>>

NextBatch == MainSetup \/ MainPredictFile \/ MainPrint

SpecBatch == InitBatch /\ [][NextBatch]_vars

(***************************************************************************)
(* sk_pipeline.py: SKLearnPipeline.predict.  The preprocessor and the      *)
(* three problems are trained objects: what they return for the text is    *)
(* chosen at the start.  dual_problem.predict gives the label of the one   *)
(* sample, a list that is not empty.                                       *)
(***************************************************************************)
\* the values of ClassificationResult
SINGLE == "single"
MULTI == "multi"
LICENSE == "license"
NO_LICENSE == "no license"
UNCLASSIFIED == "unclassified license"
\* the member ClassificationResult.UNCLASSIFIED itself, which the else branch
\* of SKLearnProblem.predict returns: it is equal to none of the values
UNCLASSIFIED_MEMBER == "ClassificationResult.UNCLASSIFIED"

Licenses == {"MIT", "GPL"}

\* what single_label_problem.predict and multi_label_problem.predict return
LabelLists == SeqUpTo(Licenses, MaxLabels) \cup {<<UNCLASSIFIED_MEMBER>>}

\* what dual_problem.predict returns
DualLists ==
    {<<SINGLE>>, <<MULTI>>, <<NO_LICENSE>>, <<LICENSE>>, <<UNCLASSIFIED>>,
     <<UNCLASSIFIED_MEMBER>>}

\* OrUnclassified without the "or"
OrUnclassifiedLeftOut(prediction) == prediction

\* prediction or [ClassificationResult.UNCLASSIFIED.value]
OrUnclassified(prediction) ==
    IF prediction = << >> THEN <<UNCLASSIFIED>> ELSE prediction

InitPredict ==
    /\ ExtractIdle
    /\ MergeIdle
    /\ LastIdle
    /\ FilterIdle
    /\ ConcurrentIdle
    /\ DetectIdle
    /\ BatchIdle
    /\ SaveIdle
    /\ words \in {<< >>, <<"mit">>, <<"mit", "gpl">>}
    /\ dual_returns \in DualLists
    /\ single_returns \in LabelLists
    /\ multi_returns \in LabelLists
    /\ p_pc = "call"
    /\ p_consulted = << >>
    /\ p_result = << >>

notPredictVars ==
    <<extractVars, mergeVars, filterVars, concurrentVars, detectVars, batchVars,
      saveVars,
      lastVars>>

predictInputs == <<words, dual_returns, single_returns, multi_returns>>

\* self.words = self.preprocessor.process(text, file_type)
PredictProcess ==
    /\ p_pc = "call"
    /\ p_pc' = "words"
    /\ UNCHANGED <<predictInputs, p_consulted, p_result, notPredictVars>>

\* if self.words: problem_type = self.dual_problem.predict(self.words)[0]
PredictDual ==
    /\ p_pc = "words"
    /\ words # << >>
    /\ p_consulted' = Append(p_consulted, "DP")
    /\ p_pc' = "dual"
    /\ UNCHANGED <<predictInputs, p_result, notPredictVars>>

\* the branch of ClassificationResult.MULTI.value
PredictMulti ==
    /\ p_pc = "dual"
    /\ Head(dual_returns) = MULTI
    /\ p_consulted' = Append(p_consulted, "MP")
    /\ p_result' = OrUnclassified(multi_returns)
    /\ p_pc' = "returned"
    /\ UNCHANGED <<predictInputs, notPredictVars>>

\* the branch of ClassificationResult.SINGLE.value
PredictSingle ==
    /\ p_pc = "dual"
    /\ Head(dual_returns) # MULTI
    /\ Head(dual_returns) = SINGLE
    /\ p_consulted' = Append(p_consulted, "SP")
    /\ p_result' = OrUnclassified(single_returns)
    /\ p_pc' = "returned"
    /\ UNCHANGED <<predictInputs, notPredictVars>>

\* the branch of ClassificationResult.NO_LICENSE.value
PredictNoLicense ==
    /\ p_pc = "dual"
    /\ Head(dual_returns) \notin {MULTI, SINGLE}
    /\ Head(dual_returns) = NO_LICENSE
    /\ p_result' = <<NO_LICENSE>>
    /\ p_pc' = "returned"
    /\ UNCHANGED <<predictInputs, p_consulted, notPredictVars>>

\* the last line: no words, or a label of the dual problem that has no branch
PredictUnclassified ==
    /\ \/ p_pc = "words" /\ words = << >>
       \/ p_pc = "dual" /\ Head(dual_returns) \notin {MULTI, SINGLE, NO_LICENSE}
    /\ p_result' = <<UNCLASSIFIED>>
    /\ p_pc' = "returned"
    /\ UNCHANGED <<predictInputs, p_consulted, notPredictVars>>

NextPredict ==
    \/ PredictProcess
    \/ PredictDual
    \/ PredictMulti
    \/ PredictSingle
    \/ PredictNoLicense
    \/ PredictUnclassified

SpecPredict == InitPredict /\ [][NextPredict]_vars

(***************************************************************************)
(* sk_pipeline.py: SKLearnPipeline.save.  A problem is known by its name;  *)
(* config_parser is the set of its sections and saved the set of the       *)
(* paths made or written, dataloader.path being <<"path">>.                *)
(***************************************************************************)
\* an SKLearnProblem
Problem(name) == [kind |-> "SKLearnProblem", name |-> name]

ProblemNames == {"SP", "MP", "DP"}

\* what an attribute of the pipeline may hold: None (as __init__ leaves it)
\* or a problem
MaybeProblems == {None} \cup {Problem(n) : n \in ProblemNames}

\* the messages of the two PipelineExceptions, and of the AttributeError
\* that p.name raises for None
MSG_INCOMPLETE ==
    <<"N", "o", "t", " ", "a", "l", "l", " ", "p", "r", "o", "b", "l", "e",
      "m", "s", " ", "a", "r", "e", " ", "i", "n", "i", "t", "i", "a", "l",
      "i", "z", "e", "d", ",", " ", "i", "n", "c", "o", "m", "p", "l", "e",
      "t", "e", " ", "p", "i", "p", "e", "l", "i", "n", "e", " ", "c", "a",
      "n", "'", "t", " ", "b", "e", " ", "s", "a", "v", "e", "d">>
MSG_SAME_NAME ==
    <<"P", "i", "p", "e", "l", "i", "n", "e", " ", "h", "a", "s", " ", "m",
      "u", "l", "t", "i", "p", "l", "e", " ", "p", "r", "o", "b", "l", "e",
      "m", "s", " ", "w", "i", "t", "h", " ", "t", "h", "e", " ", "s", "a",
      "m", "e", " ", "n", "a", "m", "e">>
MSG_ATTRIBUTE ==
    <<"'", "N", "o", "n", "e", "T", "y", "p", "e", "'", " ", "o", "b", "j",
      "e", "c", "t", " ", "h", "a", "s", " ", "n", "o", " ", "a", "t", "t",
      "r", "i", "b", "u", "t", "e", " ", "'", "n", "a", "m", "e", "'">>

\* "if problems is None": the three problems of the pipeline
ProblemsOf(arg, single, multi, dual) ==
    IF arg = None THEN <<single, multi, dual>> ELSE arg.items

\* NoneIn that holds only when every problem is None
NoneInAll(problems) ==
    problems # << >> /\ \A k \in 1..Len(problems) : problems[k] = None

\* None in problems
NoneIn(problems) == \E k \in 1..Len(problems) : problems[k] = None

\* len(set(names)) != len(problems)
SameName(problems) ==
    Cardinality({problems[k].name : k \in 1..Len(problems)}) # Len(problems)

\* an exception raised
Raised(class, message) == [kind |-> class, message |-> message]

\* a list handed to save
List(items) == [kind |-> "list", items |-> items]

\* the exception the head of save raises, or None: the two checks, and
\* p.name, which raises AttributeError for None
SaveChecks(problems) ==
    IF NoneIn(problems) THEN Raised("PipelineException", MSG_INCOMPLETE)
    ELSE IF \E k \in 1..Len(problems) : problems[k] = None
    THEN Raised("AttributeError", MSG_ATTRIBUTE)
    ELSE IF SameName(problems) THEN Raised("PipelineException", MSG_SAME_NAME)
    ELSE None

InitSave ==
    /\ ExtractIdle
    /\ MergeIdle
    /\ LastIdle
    /\ FilterIdle
    /\ ConcurrentIdle
    /\ DetectIdle
    /\ BatchIdle
    /\ PredictIdle
    /\ problems_arg \in {None} \cup {List(l) : l \in SeqUpTo(MaybeProblems, MaxProblems)}
    /\ single_label_problem \in MaybeProblems
    /\ multi_label_problem \in MaybeProblems
    /\ dual_problem \in MaybeProblems
    /\ license_text_lookup \in {{}, {"MIT"}}
    /\ config_parser \in {{}, {"SP", "MP", "DP"}}
    /\ config_before = config_parser
    /\ saved = {}
    /\ s_pc = "call"
    /\ s_raised = None

notSaveVars ==
    <<extractVars, mergeVars, filterVars, concurrentVars, detectVars, batchVars,
      predictVars,
      lastVars>>

saveInputs ==
    <<problems_arg, single_label_problem, multi_label_problem, dual_problem,
      license_text_lookup, config_before>>

\* the problems save works on
Problems ==
    ProblemsOf(problems_arg, single_label_problem, multi_label_problem, dual_problem)

\* the head of save: the default of problems and the two checks
SaveCheck ==
    /\ s_pc = "call"
    /\ s_raised' = SaveChecks(Problems)
    /\ s_pc' = IF s_raised' = None THEN "mkdir" ELSE "raised"
    /\ UNCHANGED <<saveInputs, config_parser, saved, notSaveVars>>

\* self.dataloader.path.mkdir(exist_ok=True, parents=True)
SaveMkdir ==
    /\ s_pc = "mkdir"
    /\ saved' = saved \cup {<<"path">>}
    /\ s_pc' = "section"
    /\ UNCHANGED <<saveInputs, config_parser, s_raised, notSaveVars>>

\* self.config_parser['rigel'] = {...}
SaveRigelSection ==
    /\ s_pc = "section"
    /\ config_parser' = config_parser \cup {"rigel"}
    /\ s_pc' = "problems"
    /\ UNCHANGED <<saveInputs, saved, s_raised, notSaveVars>>

\* self._save_problems(problems)
SaveProblems ==
    /\ s_pc = "problems"
    /\ config_parser' = config_parser \cup {Problems[k].name : k \in 1..Len(Problems)}
    /\ saved' = saved \cup {<<"path", Problems[k].name>> : k \in 1..Len(Problems)}
    /\ s_pc' = "licenses"
    /\ UNCHANGED <<saveInputs, s_raised, notSaveVars>>

\* self._save_license_text_lookup()
SaveLicenseTextLookup ==
    /\ s_pc = "licenses"
    /\ saved' = saved \cup {<<"path", "licenses">>}
                      \cup {<<"path", "licenses", name>> : name \in license_text_lookup}
    /\ s_pc' = "config"
    /\ UNCHANGED <<saveInputs, config_parser, s_raised, notSaveVars>>

\* self._save_config()
SaveConfig ==
    /\ s_pc = "config"
    /\ saved' = saved \cup {<<"path", "config.ini">>}
    /\ s_pc' = "returned"
    /\ UNCHANGED <<saveInputs, config_parser, s_raised, notSaveVars>>

NextSave ==
    \/ SaveCheck
    \/ SaveMkdir
    \/ SaveRigelSection
    \/ SaveProblems
    \/ SaveLicenseTextLookup
    \/ SaveConfig

SpecSave == InitSave /\ [][NextSave]_vars

(***************************************************************************)
(* preprocessor.py: Preprocessor.process, with process_text as              *)
(* PreprocessorSpacy has it.  The tokenizer is the library's: here it cuts  *)
(* the text at blanks and at punctuation, and a token is_alpha or is_digit  *)
(* when all its characters are letters or all are digits.  The lemma of a   *)
(* token is taken to be the token.                                          *)
(***************************************************************************)
\* self.nlp.max_length
NlpMaxLength == 2000000

Digits == {"0", "1", "2", "3", "4", "5", "6", "7", "8", "9"}

Letters ==
    {UpperLetters[i] : i \in 1..Len(UpperLetters)} \cup
    {LowerLetters[i] : i \in 1..Len(LowerLetters)}

\* the characters at which self.nlp(text) cuts
Separators == Whitespace \cup {"(", ")", "/", "*", "#", "\"", "'", ",", "."}

\* the tokens of text, cur being the token begun
RECURSIVE TokensFrom(_, _)
TokensFrom(text, cur) ==
    LET ended == IF cur = << >> THEN << >> ELSE <<cur>>
    IN  IF text = << >> THEN ended
        ELSE IF Head(text) \in Separators THEN ended \o TokensFrom(Tail(text), << >>)
        ELSE TokensFrom(Tail(text), Append(cur, Head(text)))

\* filter_token: token.is_alpha or token.is_digit
FilterToken(token) ==
    \/ \A i \in 1..Len(token) : token[i] \in Letters
    \/ \A i \in 1..Len(token) : token[i] \in Digits

\* PreprocessorSpacy.process_text
ProcessText(text) ==
    IF text = << >> THEN << >>
    ELSE IF Len(text) > NlpMaxLength THEN << >>
    ELSE LET kept == SelectSeq(TokensFrom(text, << >>), FilterToken)
         IN  [k \in 1..Len(kept) |-> LowerText(kept[k])]

\* Preprocessor.process_license_relevant_words: a list, or None when the
\* extractor finds nothing and the function ends without a return
ProcessLicenseRelevantWords(raw, t) ==
    IF raw = << >> THEN List(<< >>)
    ELSE LET comments_and_strings ==
                 ExtractCommentsAndStrings(SplitLines(raw), t, TRUE, TRUE)
         IN  IF comments_and_strings # << >>
             THEN List(ProcessText(ExtractLicenseRelatedText(comments_and_strings)))
             ELSE None

\* ProcessReturns without the else branch
ProcessReturnsNoFallback(lrw, raw) == lrw

\* "if license_related_words: return license_related_words", else
\* process_text of the whole text
ProcessReturns(lrw, raw) ==
    IF lrw # None /\ lrw.items # << >> THEN lrw ELSE List(ProcessText(raw))

\* the lines of the texts process is called with
ProcessLines ==
    {<<"/", "/", " ", "a">>,
     <<"/", "/", " ", "(", "c", ")", " ", "b">>,
     <<"#", " ", "l", "i", "c", "e", "n", "_", "x">>,
     <<"x">>,
     << "\"", "C", "o", "p", "y", "r", "i", "g", "h", "t", " ", "9", "\"" >>,
     << >>}

ProcessTypes == {MIME_C, MIME_PYTHON, MIME_UNKNOWN}

InitProcess ==
    /\ ExtractIdle
    /\ MergeIdle
    /\ FilterIdle
    /\ ConcurrentIdle
    /\ DetectIdle
    /\ BatchIdle
    /\ PredictIdle
    /\ SaveIdle
    /\ SpecialIdle
    /\ FactoryIdle
    /\ raw_text \in {Join(lines, <<"\n">>) : lines \in SeqUpTo(ProcessLines, MaxProcessLines)}
    /\ pr_type \in ProcessTypes
    /\ pr_pc = "call"
    /\ license_related_words = None
    /\ pr_result = None

notProcessVars ==
    <<extractVars, mergeVars, filterVars, concurrentVars, detectVars, batchVars,
      predictVars, saveVars, specialVars, factoryVars>>

\* process up to the call of process_license_relevant_words: "if not raw_text"
ProcessEnter ==
    /\ pr_pc = "call"
    /\ IF raw_text = << >>
       THEN pr_result' = List(<< >>) /\ pr_pc' = "returned"
       ELSE pr_pc' = "lrw" /\ UNCHANGED pr_result
    /\ UNCHANGED <<raw_text, pr_type, license_related_words, notProcessVars>>

\* license_related_words = self.process_license_relevant_words(raw_text, file_type)
CallProcessLicenseRelevantWords ==
    /\ pr_pc = "lrw"
    /\ license_related_words' = ProcessLicenseRelevantWords(raw_text, pr_type)
    /\ pr_pc' = "decide"
    /\ UNCHANGED <<raw_text, pr_type, pr_result, notProcessVars>>

\* the if / else that ends process
ProcessReturn ==
    /\ pr_pc = "decide"
    /\ pr_result' = ProcessReturns(license_related_words, raw_text)
    /\ pr_pc' = "returned"
    /\ UNCHANGED <<raw_text, pr_type, license_related_words, notProcessVars>>

NextProcess == ProcessEnter \/ CallProcessLicenseRelevantWords \/ ProcessReturn

SpecProcess == InitProcess /\ [][NextProcess]_vars

(***************************************************************************)
(* sk_pipeline_special_cases.py: SpecialSKLearnPipeline.predict.  A label  *)
(* is a str, a sequence of characters.  What super().predict returns and   *)
(* what the problem of each special case predicts are chosen at the start. *)
(***************************************************************************)
\* a str where a list may stand as well
PyStr(chars) == [kind |-> "str", content |-> chars]

GPL == <<"G", "P", "L">>
MIT == <<"M", "I", "T">>
GPL2 == <<"G", "P", "L", "2">>
GPL3 == <<"G", "P", "L", "3">>

\* what super().predict may return: a list of labels that is not empty
BaseResults == SeqUpTo({GPL, MIT}, MaxLabels) \ {<< >>}

\* what the problem of a special case may predict
CasePredictions == {<< >>, <<GPL2>>, <<GPL2, GPL3>>}

\* the dicts special_case_problems may be: the cases in the order of
\* insertion, none twice, each with the prediction of its problem
SpecialCaseProblems ==
    {d \in SeqUpTo([case : {GPL, MIT}, predicts : CasePredictions], MaxLabels) :
        \A i, j \in 1..Len(d) : i # j => d[i].case # d[j].case}

\* self.special_case_problems[case].predict(self.words) or case
PredictOrCase(prediction, case) ==
    IF prediction # << >> THEN List(prediction) ELSE PyStr(case)

\* case in result / l in precise_labels
In(label, labels) == \E k \in 1..Len(labels) : labels[k] = label

\* mapped_result += value: a list is extended by the items of a list, and by
\* the characters of a str
Extend(list, value) ==
    IF value.kind = "list" THEN list \o value.items
    ELSE list \o [i \in 1..Len(value.content) |-> <<value.content[i]>>]

InitSpecial ==
    /\ ExtractIdle
    /\ MergeIdle
    /\ FilterIdle
    /\ ConcurrentIdle
    /\ DetectIdle
    /\ BatchIdle
    /\ PredictIdle
    /\ SaveIdle
    /\ ProcessIdle
    /\ FactoryIdle
    /\ special_case_problems \in SpecialCaseProblems
    /\ base_result \in BaseResults
    /\ sp_pc = "call"
    /\ sp_index = 1
    /\ precise_labels = << >>
    /\ mapped_result = << >>

notSpecialVars ==
    <<extractVars, mergeVars, filterVars, concurrentVars, detectVars, batchVars,
      predictVars, saveVars, processVars, factoryVars>>

\* result = super().predict(text, file_type); precise_labels = {}
SpecialSuperPredict ==
    /\ sp_pc = "call"
    /\ sp_pc' = "cases"
    /\ UNCHANGED <<special_case_problems, base_result, sp_index, precise_labels,
                   mapped_result, notSpecialVars>>

\* one pass of "for case in self.special_case_problems.keys()"
SpecialPreciseLabel ==
    /\ sp_pc = "cases"
    /\ sp_index <= Len(special_case_problems)
    /\ LET p == special_case_problems[sp_index]
       IN  precise_labels' =
               IF In(p.case, base_result)
               THEN (p.case :> PredictOrCase(p.predicts, p.case)) @@ precise_labels
               ELSE precise_labels
    /\ sp_index' = sp_index + 1
    /\ UNCHANGED <<special_case_problems, base_result, sp_pc, mapped_result,
                   notSpecialVars>>

\* the first loop is over: mapped_result = []
SpecialCasesDone ==
    /\ sp_pc = "cases"
    /\ sp_index > Len(special_case_problems)
    /\ sp_pc' = "map"
    /\ sp_index' = 1
    /\ UNCHANGED <<special_case_problems, base_result, precise_labels, mapped_result,
                   notSpecialVars>>

\* one pass of "for l in result"
SpecialMapLabel ==
    /\ sp_pc = "map"
    /\ sp_index <= Len(base_result)
    /\ LET l == base_result[sp_index]
       IN  mapped_result' =
               IF l \in DOMAIN precise_labels
               THEN Extend(mapped_result, precise_labels[l])
               ELSE mapped_result \o <<l>>
    /\ sp_index' = sp_index + 1
    /\ UNCHANGED <<special_case_problems, base_result, sp_pc, precise_labels,
                   notSpecialVars>>

\* return mapped_result
SpecialReturn ==
    /\ sp_pc = "map"
    /\ sp_index > Len(base_result)
    /\ sp_pc' = "returned"
    /\ UNCHANGED <<special_case_problems, base_result, sp_index, precise_labels,
                   mapped_result, notSpecialVars>>

NextSpecial ==
    \/ SpecialSuperPredict
    \/ SpecialPreciseLabel
    \/ SpecialCasesDone
    \/ SpecialMapLabel
    \/ SpecialReturn

SpecSpecial == InitSpecial /\ [][NextSpecial]_vars

(***************************************************************************)
(* pipeline_factory.py: PipelineFactory.build_model, with the load of the  *)
(* pipeline it constructs, and cli.main, which hands what build_model      *)
(* returns to LocalPredictor and calls predict for every file.  The model  *)
(* directory is complete: every _build_problem finds its files.            *)
(***************************************************************************)
\* SKLearnPipeline.pipeline_name, SpecialSKLearnPipeline.pipeline_name
SKLEARN == "sklearn"
SKLEARN_SPECIAL_CASES == "sklearn_special_cases"

\* what the option pipeline may hold
PipelineNames == {SKLEARN, SKLEARN_SPECIAL_CASES, "pytorch", "tensorflow", "SKLearn", ""}

\* what the option cases may hold
CasesOptions ==
    {<<"G", "P", "L">>,
     <<"M", "I", "T">>,
     <<"G", "P", "L", ",", "M", "I", "T">>}

\* SKLearnPipeline.__init__ / SpecialSKLearnPipeline.__init__: the object
\* before load
NewPipeline(class) ==
    [kind |-> class, single_label_problem |-> None, multi_label_problem |-> None,
     dual_problem |-> None, special_case_problems |-> << >>]

\* SKLearnPipeline.load: the object after the three _build_problem calls
LoadProblems(self) ==
    [self EXCEPT !.single_label_problem = Problem("SP"),
                 !.multi_label_problem = Problem("MP"),
                 !.dual_problem = Problem("DP")]

\* SpecialSKLearnPipeline.load after super().load(): one problem for each
\* case of the option
LoadSpecialCases(self, cases) ==
    LET special_cases == Split(cases, <<",">>)
    IN  [self EXCEPT !.special_case_problems =
            [k \in 1..Len(special_cases) |->
                [case |-> special_cases[k], problem |-> Problem(special_cases[k])]]]

\* what load returns: SKLearnPipeline.load ends with "return self",
\* SpecialSKLearnPipeline.load ends without a return statement
LoadReturns(self) == IF self.kind = "SKLearnPipeline" THEN self ELSE None

InitFactory ==
    /\ ExtractIdle
    /\ MergeIdle
    /\ FilterIdle
    /\ ConcurrentIdle
    /\ DetectIdle
    /\ BatchIdle
    /\ PredictIdle
    /\ SaveIdle
    /\ ProcessIdle
    /\ SpecialIdle
    /\ config_pipeline \in {None} \cup {PyStr(n) : n \in PipelineNames}
    /\ cases_option \in CasesOptions
    /\ input_files \in 0..MaxFiles
    /\ f_pc = "call"
    /\ pipeline = None
    /\ build_returns = None
    /\ f_predicted = 0
    /\ f_raised = None

notFactoryVars ==
    <<extractVars, mergeVars, filterVars, concurrentVars, detectVars, batchVars,
      predictVars, saveVars, processVars, specialVars>>

factoryInputs == <<config_pipeline, cases_option, input_files>>

\* pipeline = self.config.get('rigel', 'pipeline'); NoOptionError is raised
\* anew as PipelineFactoryException
BuildModelGet ==
    /\ f_pc = "call"
    /\ IF config_pipeline = None
       THEN /\ f_raised' = Raised("PipelineFactoryException", "Error while initializing pipeline")
            /\ f_pc' = "raised"
       ELSE /\ f_pc' = "dispatch"
            /\ UNCHANGED f_raised
    /\ UNCHANGED <<factoryInputs, pipeline, build_returns, f_predicted, notFactoryVars>>

\* the if / elif chain: the pipeline of the name is constructed, None is
\* returned for 'pytorch', PipelineFactoryException raised for another name
BuildModelDispatch ==
    /\ f_pc = "dispatch"
    /\ CASE config_pipeline.content = SKLEARN ->
              /\ pipeline' = NewPipeline("SKLearnPipeline")
              /\ f_pc' = "load"
              /\ UNCHANGED <<build_returns, f_raised>>
         [] config_pipeline.content = SKLEARN_SPECIAL_CASES ->
              /\ pipeline' = NewPipeline("SpecialSKLearnPipeline")
              /\ f_pc' = "load"
              /\ UNCHANGED <<build_returns, f_raised>>
         [] config_pipeline.content = "pytorch" ->
              /\ build_returns' = None
              /\ f_pc' = "built"
              /\ UNCHANGED <<pipeline, f_raised>>
         [] OTHER ->
              /\ f_raised' = Raised("PipelineFactoryException", "Unknown pipeline definition")
              /\ f_pc' = "raised"
              /\ UNCHANGED <<pipeline, build_returns>>
    /\ UNCHANGED <<factoryInputs, f_predicted, notFactoryVars>>

\* SKLearnPipeline.load, called by build_model or by super().load()
BuildModelLoad ==
    /\ f_pc = "load"
    /\ pipeline' = LoadProblems(pipeline)
    /\ IF pipeline.kind = "SKLearnPipeline"
       THEN /\ build_returns' = LoadReturns(pipeline')
            /\ f_pc' = "built"
       ELSE /\ f_pc' = "load_cases"
            /\ UNCHANGED build_returns
    /\ UNCHANGED <<factoryInputs, f_predicted, f_raised, notFactoryVars>>

\* the rest of SpecialSKLearnPipeline.load, and the return of build_model
BuildModelLoadCases ==
    /\ f_pc = "load_cases"
    /\ pipeline' = LoadSpecialCases(pipeline, cases_option)
    /\ build_returns' = LoadReturns(pipeline')
    /\ f_pc' = "built"
    /\ UNCHANGED <<factoryInputs, f_predicted, f_raised, notFactoryVars>>

\* main: prediction_logic.predict(file) for the next file, which calls
\* self.pipeline.predict; None has no attribute predict
MainPredict ==
    /\ f_pc = "built"
    /\ f_predicted < input_files
    /\ IF build_returns = None
       THEN /\ f_raised' = Raised("AttributeError", "'NoneType' object has no attribute 'predict'")
            /\ f_pc' = "raised"
            /\ UNCHANGED f_predicted
       ELSE /\ f_predicted' = f_predicted + 1
            /\ UNCHANGED <<f_pc, f_raised>>
    /\ UNCHANGED <<factoryInputs, pipeline, build_returns, notFactoryVars>>

NextFactory ==
    \/ BuildModelGet
    \/ BuildModelDispatch
    \/ BuildModelLoad
    \/ BuildModelLoadCases
    \/ MainPredict

SpecFactory == InitFactory /\ [][NextFactory]_vars

(***************************************************************************)
(* Properties                                                              *)
(***************************************************************************)
Lenient == entry = "extract_comments_and_strings"

\* C1: for a MIME type that is no key of SUPPORTED_FILE_TYPES and any
\* content, extract raises CodeLanguageUnsupported, and
\* extract_comments_and_strings returns the empty list and raises nothing.
C1_UnsupportedType ==
    (type \notin DOMAIN SUPPORTED_FILE_TYPES /\ pc \notin {"idle", "call"}) =>
        IF entry = "extract"
        THEN pc = "raised" /\ raised = "CodeLanguageUnsupported"
        ELSE pc = "done" /\ result = << >> /\ raised = "none"

C1_Witness ==
    /\ Lenient
    /\ type = MIME_UNKNOWN
    /\ content = << <<"/", "/", " ", "a">>, <<"x">> >>
    /\ pc = "done"

\* the Comments of the two examples of the merge criterion
C2_CommentA == Comment(<< <<"a">> >>, 1, 1)
C2_CommentB2 == Comment(<< <<"b">> >>, 2, 2)
C2_CommentB3 == Comment(<< <<"b">> >>, 3, 3)
C2_Merged == Comment(<< <<"a">>, <<"b">> >>, 1, 2)

C2_Step ==
    (m_pc = "loop" /\ locals.iterator # << >>) =>
        LET current == locals.comment
            next == Head(locals.iterator)
        IN  IF next.start_line - current.end_line <= 1
            THEN /\ locals'.comment.body = current.body \o next.body
                 /\ locals'.comment.start_line = current.start_line
                 /\ locals'.comment.end_line = next.end_line
                 /\ locals'.result = locals.result
            ELSE /\ locals'.result = Append(locals.result, current)
                 /\ locals'.comment = next

C2_Examples ==
    (m_pc = "returned" /\ pass = 1) =>
        /\ comments = <<C2_CommentA, C2_CommentB2>> => locals.result = <<C2_Merged>>
        /\ comments = <<C2_CommentA, C2_CommentB3>> =>
               locals.result = <<C2_CommentA, C2_CommentB3>>

\* C2: in the loop of do_collapse_singleline_comments the next Comment is
\* absorbed into the accumulator (its body appended, the accumulator's
\* end_line set to its end_line) exactly when next.start_line -
\* current.end_line <= 1, and otherwise the accumulator is flushed to the
\* result and the next Comment becomes the accumulator; so ['a'] on line 1
\* and ['b'] on line 2 give one Comment ['a', 'b'] of lines 1-2, and ['a'] on
\* line 1 and ['b'] on line 3 stay two Comments.
C2_MergeCriterion == [][C2_Step]_vars /\ []C2_Examples

C2_Witness ==
    /\ m_pc = "returned"
    /\ pass = 1
    /\ comments = <<C2_CommentA, C2_CommentB2, C2_CommentB3>>
    /\ locals.result = <<Comment(<< <<"a">>, <<"b">>, <<"b">> >>, 1, 3)>>

\* C3: the merge pass run on its own result returns that result unchanged
\* (as many Comments, the same bodies, start and end lines), and in every
\* result two consecutive Comments are more than one line apart.
C3_Idempotent ==
    (m_pc = "returned") =>
        /\ \A i \in 1..(Len(locals.result) - 1) :
               locals.result[i + 1].start_line - locals.result[i].end_line > 1
        /\ pass = 2 => locals.result = first_result

C3_Witness ==
    /\ m_pc = "returned"
    /\ pass = 2
    /\ Len(first_result) = 2
    /\ \E i \in 1..2 : Len(first_result[i].body) = 2 /\ first_result[i].start_line =
                                                       first_result[i].end_line

\* C4: with collapsing enabled, the list extract_comments_and_strings
\* returns holds the strings of items that are in non-decreasing order of
\* last_line_number, for every supported MIME type and content.
C4_SortedByLastLine ==
    (pc = "done" /\ Lenient /\ collapse_singleline_comments /\ Supported(type)) =>
        /\ \A i \in 1..(Len(parsed_content) - 1) :
               LastLineNumber(parsed_content[i]) <= LastLineNumber(parsed_content[i + 1])
        /\ result = [k \in 1..Len(parsed_content) |-> Str(parsed_content[k])]

\* a Comment of an earlier line than a StringLiteral, which the lexer
\* yielded after it, comes before it in the list
C4_Witness ==
    /\ pc = "done"
    /\ Lenient
    /\ collapse_singleline_comments
    /\ Len(parsed_content) = 3
    /\ IsComment(parsed_content[1])
    /\ ~IsComment(parsed_content[2])
    /\ IsComment(parsed_content[3])
    /\ LastLineNumber(parsed_content[1]) < LastLineNumber(parsed_content[2])
    /\ LastLineNumber(parsed_content[2]) < LastLineNumber(parsed_content[3])

\* the position in the lexer's output of the item at place i of the list
\* returned: a StringLiteral is the lexer's StringLiteral of the same rank, a
\* Comment is where the lexer yielded the Comment that ends on its end_line
StringRank(items, i) == Cardinality({k \in 1..i : ~IsComment(items[k])})

NthStringPos(items, n) ==
    CHOOSE p \in 1..Len(items) : ~IsComment(items[p]) /\ StringRank(items, p) = n

LastCommentPos(items, end_line) ==
    LET at == {p \in 1..Len(items) : IsComment(items[p]) /\ items[p].end_line = end_line}
    IN  CHOOSE p \in at : \A q \in at : q <= p

DiscoveryPos(i) ==
    IF IsComment(parsed_content[i])
    THEN LastCommentPos(yielded, parsed_content[i].end_line)
    ELSE NthStringPos(yielded, StringRank(parsed_content, i))

\* C5: in the list returned with collapsing enabled, two items of equal
\* last_line_number are in the order in which the lexer yielded them, so a
\* Comment of a line comes before the StringLiterals found on that line.
C5_TiesKeepDiscoveryOrder ==
    (pc = "done" /\ Lenient /\ Supported(type) /\ collapse_singleline_comments) =>
        \A i, j \in 1..Len(parsed_content) :
            (i < j /\ LastLineNumber(parsed_content[i]) = LastLineNumber(parsed_content[j]))
                => DiscoveryPos(i) < DiscoveryPos(j)

\* every StringLiteral of the lines from n on
RECURSIVE AllStrings(_, _, _)
AllStrings(lang, lines, n) ==
    IF n > Len(lines) THEN << >>
    ELSE StringsOfLine(lang.string, Strip(lines[n]), n) \o AllStrings(lang, lines, n + 1)

\* C6: when the input ends inside a block comment, the call of
\* extract_comments_and_strings ends without an exception, no Comment is
\* yielded for the open line or a later one, and the list returned is made
\* of the Comments yielded before the block and of every StringLiteral.
C6_UnterminatedBlockDropped ==
    (pc = "done" /\ Lenient /\ Supported(type) /\ multiline_comment_buffer # << >>) =>
        LET lang == CodeLanguageOf(type)
            open == multiline_comment_buffer[1][2]
        IN  /\ raised = "none"
            /\ \A k \in 1..Len(yielded) :
                   IsComment(yielded[k]) => yielded[k].end_line < open
            /\ OnlyComments(yielded) =
                   OnlyComments(LexLines(lang, FALSE, << >>, SubSeq(content, 1, open - 1), 1))
            /\ OnlyStrings(yielded) =
                   IF include_strings THEN AllStrings(lang, content, 1) ELSE << >>
            /\ result = [k \in 1..Len(parsed_content) |-> Str(parsed_content[k])]
            /\ Len(result) <= Len(yielded)
            /\ ~collapse_singleline_comments => parsed_content = yielded

C6_Witness ==
    /\ pc = "done"
    /\ Lenient
    /\ Len(multiline_comment_buffer) = 2
    /\ include_strings
    /\ OnlyComments(yielded) # << >>
    /\ Len(result) = 1

\* the text the filter builds of the literals whose places are in keep
RECURSIVE BlobFrom(_, _, _)
BlobFrom(lits, keep, i) ==
    IF i > Len(lits) THEN << >>
    ELSE (IF i \in keep THEN lits[i] \o <<"\n">> ELSE << >>) \o BlobFrom(lits, keep, i + 1)

Blob(lits, keep) == BlobFrom(lits, keep, 1)

HoldsWord(literal, word) ==
    \E at \in 1..Len(literal) :
        /\ at + Len(word) - 1 <= Len(literal)
        /\ \A k \in 1..Len(word) : LowerChar(literal[at + k - 1]) = LowerChar(word[k])

LicenseWords ==
    {<<"l", "i", "c", "e", "n">>,
     <<"c", "o", "p", "y", "r", "i", "g", "h", "t">>,
     <<"(", "c", ")">>,
     <<"p", "u", "b", "l", "i", "c", " ", "d", "o", "m", "a", "i", "n">>}

LicenseRelevant(literal) == \E word \in LicenseWords : HoldsWord(literal, word)

C8_Example ==
    << <<"T", "h", "i", "s", " ", "i", "s", " ", "M", "I", "T", " ", "l", "i", "c", "e",
         "n", "s", "e", "d">>,
       <<"f", "o", "o", "(", ")">>,
       <<"C", "o", "p", "y", "r", "i", "g", "h", "t", " ", "2", "0", "2", "0">> >>

Count(text, c) == Cardinality({i \in 1..Len(text) : text[i] = c})

\* content has no comment and no quoted string: no line begins a comment of
\* the language and none holds two quotes of a kind; no node of a markup
\* document is a comment or holds two quotes of a kind
NoCommentsNoQuotedStrings ==
    IF ~Supported(type) THEN TRUE
    ELSE IF IsMarkup(type)
    THEN \A k \in 1..Len(content) :
             /\ content[k].kind # "comment"
             /\ \A q \in {"\"", "'"} : Count(content[k].text, q) < 2
    ELSE LET lang == CodeLanguageOf(type)
         IN  \A k \in 1..Len(content) :
                 LET text == Strip(content[k])
                 IN  /\ ~StartsWith(text, lang.slc_header)
                     /\ lang.has_multiline => ~StartsWith(text, lang.mlc_header)
                     /\ \A q \in {lang.string[n] : n \in 1..Len(lang.string)} :
                            Count(text, q) < 2

\* C9 as stated: for every MIME type, a text with no comments and no quoted
\* strings gives the empty list.
C9_EmptyForEveryType ==
    (pc = "done" /\ Lenient /\ NoCommentsNoQuotedStrings) => result = << >>

\* the text nodes SGMLCodeLanguage.parse keeps
KeptTextNodes ==
    LET kept == SelectSeq(content, LAMBDA n : n.kind = "text" /\ n.text # <<"\n">>)
    IN  [k \in 1..Len(kept) |-> kept[k].text]

\* C9 (amended): for every delimiter-based and every unsupported MIME type,
\* a text with no comments and no quoted strings gives the empty list; for a
\* markup type it gives the document's text nodes other than a lone newline
\* when strings are asked for, and the empty list when they are not.
C9_EmptyUnlessMarkupText ==
    (pc = "done" /\ Lenient /\ NoCommentsNoQuotedStrings) =>
        IF Supported(type) /\ IsMarkup(type)
        THEN result = IF include_strings THEN KeptTextNodes ELSE << >>
        ELSE result = << >>

C9_Witness ==
    /\ pc = "done"
    /\ Lenient
    /\ type = MIME_C
    /\ include_strings
    /\ NoCommentsNoQuotedStrings
    /\ content = << <<"x">>, <<"b", " ", "*", "/">>, <<"x">> >>
    /\ result = << >>

\* text without a leading prefix / a trailing suffix
RemovePrefix(text, prefix) ==
    IF StartsWith(text, prefix) THEN From(text, Len(prefix) + 1) ELSE text

RemoveSuffix(text, suffix) ==
    IF EndsWith(text, suffix) THEN SubSeq(text, 1, Len(text) - Len(suffix)) ELSE text

\* the non-blank lines first..last of content with the comment delimiters
\* removed: the open token of the first, the interior prefix of the lines
\* between, the close token of the last (strip_last: and its interior prefix)
ExpectedBody(lang, first, last, strip_last) ==
    LET numbers == SelectSeq([k \in 1..(last - first + 1) |-> first + k - 1],
                             LAMBDA n : Strip(content[n]) # << >>)
        clean(n) ==
            LET text == Strip(content[n])
            IN  IF n = first THEN Strip(RemovePrefix(text, lang.mlc_header))
                ELSE IF n = last
                THEN LET inner == Strip(RemoveSuffix(text, lang.mlc_footer))
                     IN  IF strip_last THEN Strip(RemovePrefix(inner, lang.mlc_middle))
                         ELSE inner
                ELSE Strip(RemovePrefix(text, lang.mlc_middle))
    IN  [k \in 1..Len(numbers) |-> clean(numbers[k])]

\* the lines first..last are a block comment with its delimiters in their
\* places: the open token begins the first line, the close token ends the
\* last one, neither token occurs anywhere else in the lines, and every line
\* between begins with the interior prefix when the language has one
WellFormedBlock(lang, first, last) ==
    LET free(text) ==
            FindFirst(text, lang.mlc_header) = 0 /\ FindFirst(text, lang.mlc_footer) = 0
    IN  /\ first < last
        /\ StartsWith(Strip(content[first]), lang.mlc_header)
        /\ free(RemovePrefix(Strip(content[first]), lang.mlc_header))
        /\ EndsWith(Strip(content[last]), lang.mlc_footer)
        /\ free(RemoveSuffix(Strip(content[last]), lang.mlc_footer))
        /\ \A n \in (first + 1)..(last - 1) :
               /\ free(content[n])
               /\ Strip(content[n]) # << >> => StartsWith(Strip(content[n]), lang.mlc_middle)

\* C10: the Comment the lexer yields for a block comment of several physical
\* lines (open token on the first, close token on the last) has as its body
\* those lines, in order, with only the comment delimiters removed: the open
\* token, the interior prefix where a line has it, the close token
\* (surrounding blanks and blank lines apart).
C10_BlockRoundTrip ==
    (pc \in {"parse", "done"} /\ Supported(type) /\ ~IsMarkup(type)) =>
        \A i \in 1..Len(yielded) :
            (/\ IsComment(yielded[i])
             /\ WellFormedBlock(CodeLanguageOf(type), yielded[i].start_line,
                                yielded[i].end_line)) =>
                \E strip_last \in BOOLEAN :
                    yielded[i].body =
                        ExpectedBody(CodeLanguageOf(type), yielded[i].start_line,
                                     yielded[i].end_line, strip_last)

\* the accumulators the loop of do_collapse_singleline_comments goes through
RECURSIVE CollapseAccumulators(_)
CollapseAccumulators(st) ==
    IF st.finished THEN {}
    ELSE {st.comment} \cup CollapseAccumulators(CollapseIteration(st))

\* every Comment of the call: those the lexer or the markup parser has
\* yielded, those the merge pass goes through, those of the list returned
CommentsOfCall ==
    {yielded[k] : k \in {i \in 1..Len(yielded) : IsComment(yielded[i])}}
    \cup {parsed_content[k] :
             k \in {i \in 1..Len(parsed_content) : IsComment(parsed_content[i])}}
    \cup (IF pc = "done" /\ Supported(type) /\ collapse_singleline_comments
          THEN CollapseAccumulators(CollapseEnter(OnlyComments(yielded)))
          ELSE {})

\* C11: every Comment of an extraction call, yielded by the lexer or the
\* markup parser, held or updated by the merge pass, or in the list that is
\* stringified, has start_line <= end_line.
C11_StartNotAfterEnd == \A c \in CommentsOfCall : c.start_line <= c.end_line

C11_Witness ==
    /\ pc = "done"
    /\ Lenient
    /\ collapse_singleline_comments
    /\ Len(OnlyComments(yielded)) = 2
    /\ \E k \in 1..Len(yielded) : IsComment(yielded[k]) /\ yielded[k].is_multiline
    /\ Len(OnlyComments(parsed_content)) = 1

\* the buffer the lexer holds when it comes to line n
RECURSIVE BufferBefore(_)
BufferBefore(n) ==
    IF n <= 1 THEN << >>
    ELSE ParseLineStep(CodeLanguageOf(type), FALSE, BufferBefore(n - 1),
                       content[n - 1], n - 1).buf

\* line n is absorbed: the lexer pushes it into the buffer, closes the block
\* with it, or yields a Comment of its own for it
Absorbed(n) ==
    LET step == ParseLineStep(CodeLanguageOf(type), FALSE, BufferBefore(n), content[n], n)
    IN  step.buf # BufferBefore(n) \/ step.yielded # << >>

\* C12 as stated: every Comment of an extraction call has as many body lines
\* as there are physical lines from start_line to end_line,
\* len(body) = end_line - start_line + 1.
C12_BodyLengthIsLineRange ==
    \A c \in CommentsOfCall : Len(c.body) = c.end_line - c.start_line + 1

\* C12 (amended): a Comment of a delimiter-based type, before and after
\* merging, has as many body lines as there are lines from start_line to
\* end_line that the lexer absorbed, at least one and at most
\* end_line - start_line + 1; a markup Comment has start_line = end_line = 0
\* whatever the length of its body.
C12_BodyLengthIsLinesAbsorbed ==
    (Supported(type) /\ pc \in {"parse", "parsed", "done"}) =>
        \A c \in CommentsOfCall :
            IF IsMarkup(type)
            THEN c.start_line = 0 /\ c.end_line = 0
            ELSE /\ Len(c.body) = Cardinality({n \in c.start_line..c.end_line : Absorbed(n)})
                 /\ Len(c.body) >= 1
                 /\ Len(c.body) <= c.end_line - c.start_line + 1

C12_Witness ==
    /\ pc = "done"
    /\ Lenient
    /\ type = MIME_C
    /\ collapse_singleline_comments
    /\ content = << <<"/", "*", " ", "a">>, << >>, <<"b", " ", "*", "/">> >>
    /\ \E c \in CommentsOfCall : c.start_line = 1 /\ c.end_line = 3 /\ Len(c.body) = 2

\* C13: in every state every Comment, as constructed or after any number
\* of append calls of the merge pass, has
\* is_multiline = (start_line != end_line).
C13_IsMultilineDerived ==
    \A c \in CommentsOfCall : c.is_multiline = (c.start_line # c.end_line)

\* the lexer is about to read a line of a language with block comments
AtLine ==
    /\ pc = "parse"
    /\ ~CodeLanguageOf(type).sgml
    /\ line_number <= Len(content)
    /\ CodeLanguageOf(type).has_multiline

\* the line read by the step, as the rules see it
Text == Strip(content[line_number])

\* the step yields one Comment, of the line read, and leaves the buffer empty
YieldsOneCommentOfTheLine ==
    /\ Len(OnlyComments(yielded')) = Len(OnlyComments(yielded)) + 1
    /\ LET c == OnlyComments(yielded')[Len(OnlyComments(yielded'))]
       IN  c.start_line = line_number /\ c.end_line = line_number
    /\ multiline_comment_buffer' = << >>

C19_Step ==
    (/\ AtLine
     /\ multiline_comment_buffer = << >>
     /\ StartsWith(Text, CodeLanguageOf(type).mlc_header)
     /\ EndsWith(Text, CodeLanguageOf(type).mlc_footer)) => YieldsOneCommentOfTheLine

\* C19 as stated: outside a block comment every line that starts with the
\* open token and ends with the close token yields exactly one Comment at
\* once, with start_line = end_line = the line, and the buffer stays empty.
C19_EveryOpenCloseLine == [][C19_Step]_vars

C19_StepLongEnough ==
    (/\ AtLine
     /\ multiline_comment_buffer = << >>
     /\ StartsWith(Text, CodeLanguageOf(type).mlc_header)
     /\ EndsWith(Text, CodeLanguageOf(type).mlc_footer)) =>
        IF Len(Text) >= Len(CodeLanguageOf(type).mlc_header)
                        + Len(CodeLanguageOf(type).mlc_footer)
        THEN YieldsOneCommentOfTheLine
        ELSE /\ OnlyComments(yielded') = OnlyComments(yielded)
             /\ Len(multiline_comment_buffer') = 1
             /\ multiline_comment_buffer'[1][2] = line_number

\* C19 (amended): outside a block comment every line that starts with the
\* open token, ends with the close token and is at least as long as the two
\* tokens together yields exactly one Comment at once, with start_line =
\* end_line = the line, and the buffer stays empty; a shorter line, in which
\* the two tokens overlap (a lone """ in Python, /*/ in C), yields no Comment
\* and opens a block comment.
C19_OpenCloseLineLongEnough == [][C19_StepLongEnough]_vars

C19_Witness ==
    /\ pc = "parse"
    /\ type = MIME_PHP
    /\ content = << <<"/", "*", "*", " ", "a", " ", "*", "/">>, <<"a">> >>
    /\ line_number = 2
    /\ yielded = <<Comment(<< <<"a">> >>, 1, 1)>>
    /\ multiline_comment_buffer = << >>

C20_Step ==
    (/\ AtLine
     /\ multiline_comment_buffer # << >>
     /\ Text # << >>
     /\ ~StartsWith(Text, CodeLanguageOf(type).mlc_header)
     /\ ~EndsWith(Text, CodeLanguageOf(type).mlc_footer)) =>
        LET mlc_middle == CodeLanguageOf(type).mlc_middle
            pushed == IF mlc_middle # << >> /\ StartsWith(Text, mlc_middle)
                      THEN Strip(RemovePrefix(Text, mlc_middle))
                      ELSE Text
        IN  multiline_comment_buffer' =
                Append(multiline_comment_buffer, <<pushed, line_number>>)

\* C20: inside a block comment every non-blank line that neither starts
\* with the open token nor ends with the close token is pushed into the
\* buffer with its line number, without the interior prefix if the line
\* begins with it.
C20_ContinuationPushed == [][C20_Step]_vars

\* what extract_comments_and_strings returns for a call that runs alone
RunAlone(c) ==
    ExtractCommentsAndStrings(c.content, c.type, c.include_strings,
                              c.collapse_singleline_comments)

\* C14: however the steps of two calls of extract_comments_and_strings
\* interleave, each call returns what it returns when it runs alone, and
\* Parser.SUPPORTED_FILE_TYPES is never changed.
C14_CallsDoNotInterfere ==
    /\ registry = SUPPORTED_FILE_TYPES
    /\ \A id \in CallIds :
           (call[id].pc = "done") => call[id].result = RunAlone(call[id])

\* one call has returned the block comment of its content while the other
\* is inside a block comment of its own
C14_Witness ==
    /\ \A id \in CallIds : call[id].type = MIME_C
    /\ call[1].content = << <<"/", "*", " ", "a">>, <<"b", " ", "*", "/">> >>
    /\ call[2].content = << <<"/", "*", " ", "a">>, <<"/", "/", " ", "a">> >>
    /\ call[1].pc = "done"
    /\ call[1].result = << <<"a", "\n", "b">> >>
    /\ call[2].pc = "parse"
    /\ call[2].line_number = 2
    /\ buffers[2] # << >>

\* the values of the attributes of MimeType
MimeTypeValues ==
    {MIME_C, MIME_C_PLUS_PLUS, MIME_JAVA, MIME_HTML, MIME_XML, MIME_SGML, MIME_PYTHON,
     MIME_SHELL, MIME_PHP, MIME_UNKNOWN}

\* C16: get_file_type_from_stream returns a value of MimeType whatever
\* magic.from_buffer returns; it returns MimeType.UNKNOWN for None and for
\* the empty stream, for a description whose text before the first comma is
\* no key of MagicToMimeType.MAPPING, and when ImportError is raised; and
\* extract_comments_and_strings called with MimeType.UNKNOWN returns [].
C16_DetectionTotal ==
    /\ d_pc \in {"returned", "extracted"} =>
           /\ file_type \in MimeTypeValues
           /\ d_raised = "none"
           /\ (stream = None \/ stream.content = << >>) => file_type = MIME_UNKNOWN
           /\ magic_outcome.kind = "ImportError" => file_type = MIME_UNKNOWN
           /\ (/\ magic_outcome.kind = "description"
               /\ \A key \in DOMAIN MAPPING :
                      ~(/\ StartsWith(magic_outcome.text, key)
                        /\ \/ Len(magic_outcome.text) = Len(key)
                           \/ magic_outcome.text[Len(key) + 1] = ","))
                  => file_type = MIME_UNKNOWN
    /\ d_pc = "raised" =>
           /\ stream # None
           /\ stream.content # << >>
           /\ magic_outcome.kind \notin {"description", "ImportError"}
    /\ (d_pc = "extracted" /\ file_type = MIME_UNKNOWN) => d_result = << >>

C16_Witness ==
    /\ d_pc = "extracted"
    /\ magic_outcome = [kind |-> "description",
                        text |-> <<"J", "a", "v", "a", " ", "s", "o", "u", "r", "c", "e", ",", " ", "A", "S", "C", "I", "I", " ", "t", "e", "x", "t">>]
    /\ stream = [kind |-> "str", content |-> << <<"/", "/", " ", "a">>, <<"x">> >>]
    /\ file_type = MIME_UNKNOWN
    /\ d_result = << >>

\* C15: when main has ended, every file of the batch whose own processing
\* does not fail has been predicted, with the result it has alone, and that
\* result is printed, whatever the other files of the batch are (of an
\* unsupported type, or with markup the tree parser raises on).
C15_OtherFilesProcessed ==
    (b_pc \in {"printed", "raised"}) =>
        \A i \in 1..Len(files) :
            ~MarkupParserRaises(files[i]) =>
                /\ \E k \in 1..Len(b_predicted) :
                       b_predicted[k] = PredictionResult(i, PredictFile(files[i]))
                /\ \E k \in 1..Len(b_output) :
                       b_output[k] = PredictionResult(i, PredictFile(files[i]))

\* C17: SKLearnPipeline.predict never returns the empty list.  Without
\* words it returns [UNCLASSIFIED] and consults no problem.  With words it
\* consults the dual problem first and then takes one branch: for 'single'
\* the single problem and for 'multi' the multi problem is consulted and
\* its prediction returned, [UNCLASSIFIED] in its place when it is empty;
\* for 'no license' [NO_LICENSE] is returned and for any other label
\* [UNCLASSIFIED], no further problem being consulted.
C17_TwoStepPrediction ==
    (p_pc = "returned") =>
        /\ p_result # << >>
        /\ IF words = << >>
           THEN p_result = <<"unclassified license">> /\ p_consulted = << >>
           ELSE CASE dual_returns[1] = "single" ->
                       /\ p_consulted = <<"DP", "SP">>
                       /\ p_result = IF single_returns = << >>
                                     THEN <<"unclassified license">>
                                     ELSE single_returns
                  [] dual_returns[1] = "multi" ->
                       /\ p_consulted = <<"DP", "MP">>
                       /\ p_result = IF multi_returns = << >>
                                     THEN <<"unclassified license">>
                                     ELSE multi_returns
                  [] dual_returns[1] = "no license" ->
                       p_consulted = <<"DP">> /\ p_result = <<"no license">>
                  [] OTHER ->
                       p_consulted = <<"DP">> /\ p_result = <<"unclassified license">>

\* the last case of test_predict: 'multi', and the multi problem predicts []
C17_Witness ==
    /\ p_pc = "returned"
    /\ words # << >>
    /\ dual_returns = <<"multi">>
    /\ multi_returns = << >>
    /\ single_returns = <<"MIT">>
    /\ p_result = <<"unclassified license">>

\* C18: save called without a list of problems, on a pipeline of which the
\* single, the multi or the dual problem is None, raises PipelineException
\* with a message that holds 'incomplete pipeline', and has written nothing:
\* the config parser has the sections it had, among them no 'rigel', and no
\* problem, license text or config file is saved.
C18_IncompletePipelineNotSaved ==
    (/\ s_pc \notin {"idle", "call"}
     /\ problems_arg = None
     /\ \/ single_label_problem = None
        \/ multi_label_problem = None
        \/ dual_problem = None) =>
        /\ s_pc = "raised"
        /\ s_raised # None
        /\ s_raised.kind = "PipelineException"
        /\ FindFirst(s_raised.message, <<"i", "n", "c", "o", "m", "p", "l", "e", "t", "e", " ", "p", "i", "p",
                              "e", "l", "i", "n", "e">>) # 0
        /\ config_parser = config_before
        /\ "rigel" \notin config_parser
        /\ saved = {}

\* the second case of test_save_raise_if_incomplete_pipeline: only the
\* single problem is set
C18_Witness ==
    /\ s_pc = "raised"
    /\ problems_arg = None
    /\ single_label_problem = Problem("SP")
    /\ multi_label_problem = None
    /\ dual_problem = None
    /\ license_text_lookup = {"MIT"}
    /\ s_raised = Raised("PipelineException", MSG_INCOMPLETE)

\* the texts a buffer holds, in order
BufferTexts(buf) == [k \in 1..Len(buf) |-> buf[k][1]]

\* a step of the lexer that reads a line while it is inside a block comment
C21_Step ==
    (AtLine /\ multiline_comment_buffer # << >>) =>
        IF EndsWith(Text, CodeLanguageOf(type).mlc_footer)
        THEN /\ Len(OnlyComments(yielded')) = Len(OnlyComments(yielded)) + 1
             /\ LET c == OnlyComments(yielded')[Len(OnlyComments(yielded'))]
                IN  /\ c.start_line = multiline_comment_buffer[1][2]
                    /\ c.end_line = line_number
                    /\ Len(c.body) = Len(multiline_comment_buffer) + 1
                    /\ SubSeq(c.body, 1, Len(multiline_comment_buffer)) =
                           BufferTexts(multiline_comment_buffer)
             /\ multiline_comment_buffer' = << >>
        ELSE /\ OnlyComments(yielded') = OnlyComments(yielded)
             /\ multiline_comment_buffer' # << >>
             /\ multiline_comment_buffer'[1] = multiline_comment_buffer[1]

\* while the lexer is inside a block comment: the block was opened by an
\* earlier line that starts with the open token, no line from the one after
\* it up to the line read ends with the close token, and no Comment yielded
\* so far reaches the opening line
C21_InBlock ==
    (pc = "parse" /\ Supported(type) /\ ~CodeLanguageOf(type).sgml
        /\ multiline_comment_buffer # << >>) =>
        LET open == multiline_comment_buffer[1][2]
            lang == CodeLanguageOf(type)
        IN  /\ open < line_number
            /\ StartsWith(Strip(content[open]), lang.mlc_header)
            /\ \A n \in (open + 1)..(line_number - 1) :
                   ~EndsWith(Strip(content[n]), lang.mlc_footer)
            /\ \A k \in 1..Len(yielded) :
                   IsComment(yielded[k]) => yielded[k].end_line < open

\* C21: after a line that opens a block comment the lexer yields no Comment,
\* not even for a line that starts with the single-line prefix, until the
\* first later line that ends with the close token; at that line it yields
\* exactly one Comment, whose start_line is the opening line, whose end_line
\* is the closing line and whose body is the buffered texts in order followed
\* by the text of the closing line, and the buffer is empty afterwards.
C21_BlockProtocol == [][C21_Step]_vars /\ []C21_InBlock

C21_Witness ==
    /\ pc = "parse"
    /\ type = MIME_C
    /\ content = << <<"/", "*", " ", "a">>, <<"/", "/", " ", "b">>, <<"b", " ", "*", "/">> >>
    /\ line_number = 4
    /\ multiline_comment_buffer = << >>
    /\ OnlyComments(yielded) =
           <<Comment(<< <<"a">>, <<"/", "/", " ", "b">>, <<"b">> >>, 1, 3)>>

\* the groups re.findall gives for each quote character of quotes, in order
RECURSIVE MatchesOf(_, _)
MatchesOf(quotes, text) ==
    IF quotes = << >> THEN << >>
    ELSE FindAll(text, Head(quotes)) \o MatchesOf(Tail(quotes), text)

\* a step of the lexer that reads a line: the StringLiterals it yields are
\* the matches of that line, with its number, whatever the buffer holds and
\* whatever comment rule takes the line
C22_Step ==
    (pc = "parse" /\ ~CodeLanguageOf(type).sgml /\ line_number <= Len(content)) =>
        LET found == MatchesOf(CodeLanguageOf(type).string, Strip(content[line_number]))
            expected == IF include_strings
                        THEN [k \in 1..Len(found) |->
                                 [kind |-> "StringLiteral", text |-> found[k],
                                  line_number |-> line_number]]
                        ELSE << >>
        IN  OnlyStrings(yielded') = OnlyStrings(yielded) \o expected

C22_NoneUnlessAsked ==
    (Supported(type) /\ ~IsMarkup(type) /\ ~include_strings) => OnlyStrings(yielded) = << >>

\* C22: for a delimiter-based type, with include_strings every non-blank
\* physical line is scanned for quoted strings and every match is yielded as
\* a StringLiteral with the number of that line, whether the line is code, a
\* single-line comment or a line inside a block comment; without
\* include_strings no StringLiteral is yielded.
C22_StringsWhateverTheCommentState == [][C22_Step]_vars /\ []C22_NoneUnlessAsked

\* a string of a single-line comment and a string of a line inside a block
C22_Witness ==
    /\ pc = "parse"
    /\ type = MIME_C
    /\ include_strings
    /\ content = << <<"/", "/", "\"", "s", "\"">>, <<"/", "*", " ", "a">>,
                    <<"\"", "s", "\"">> >>
    /\ line_number = 4
    /\ multiline_comment_buffer # << >>
    /\ OnlyStrings(yielded) = <<StringLiteral(<<"s">>, 1), StringLiteral(<<"s">>, 3)>>

\* the quoted strings of text for the quote character quote, each from an
\* opening quote to the next quote after it
RECURSIVE QuotedStringsFrom(_, _, _)
QuotedStringsFrom(text, quote, pos) ==
    LET opens == {i \in pos..Len(text) : text[i] = quote}
        open == CHOOSE i \in opens : \A j \in opens : i <= j
        closes == {i \in (open + 1)..Len(text) : text[i] = quote}
        close == CHOOSE i \in closes : \A j \in closes : i <= j
    IN  IF opens = {} THEN << >>
        ELSE IF closes = {} THEN << >>
        ELSE <<SubSeq(text, open + 1, close - 1)>> \o QuotedStringsFrom(text, quote, close + 1)

RECURSIVE QuotedStringsOf(_, _)
QuotedStringsOf(quotes, text) ==
    IF quotes = << >> THEN << >>
    ELSE QuotedStringsFrom(text, Head(quotes), 1) \o QuotedStringsOf(Tail(quotes), text)

\* every quote of text is the opening or the closing quote of a quoted
\* string, and no quote is escaped
ProperlyQuoted(quotes, text) ==
    /\ \A k \in 1..Len(quotes) : Count(text, quotes[k]) % 2 = 0
    /\ \E k \in 1..Len(quotes) : Count(text, quotes[k]) > 0
    /\ Count(text, "\\") = 0

C23_Step ==
    (/\ pc = "parse"
     /\ ~CodeLanguageOf(type).sgml
     /\ line_number <= Len(content)
     /\ include_strings
     /\ ProperlyQuoted(CodeLanguageOf(type).string, Strip(content[line_number]))) =>
        LET found == QuotedStringsOf(CodeLanguageOf(type).string,
                                     Strip(content[line_number]))
        IN  OnlyStrings(yielded') =
                OnlyStrings(yielded) \o
                [k \in 1..Len(found) |-> StringLiteral(found[k], line_number)]

\* C23: for each quote character of the language, a line that holds k
\* separate, properly closed quoted strings with that quote character and no
\* escaped quote yields k StringLiterals, one for each quoted string, each
\* with the text between its own opening and closing quote.
C23_OneLiteralPerQuotedString == [][C23_Step]_vars

\* the differences next_comment.start_line - comment.end_line at which the
\* loop of do_collapse_singleline_comments merges, from the locals st on
RECURSIVE MergeGaps(_)
MergeGaps(st) ==
    IF st.finished \/ st.iterator = << >> THEN {}
    ELSE (IF Head(st.iterator).start_line - st.comment.end_line <= 1
          THEN {Head(st.iterator).start_line - st.comment.end_line}
          ELSE {})
         \cup MergeGaps(CollapseIteration(st))

\* C24: of two Comments the delimiter-based lexer yields one after the
\* other, the second starts on a later line than the first ends on; so the
\* merge pass, run on the lexer's Comments, merges only where
\* next_comment.start_line - comment.end_line is exactly 1.
C24_LexerCommentsInLineOrder ==
    (Supported(type) /\ ~IsMarkup(type)) =>
        LET cs == OnlyComments(yielded)
        IN  /\ \A i \in 1..(Len(cs) - 1) : cs[i + 1].start_line > cs[i].end_line
            /\ \A gap \in MergeGaps(CollapseEnter(cs)) : gap = 1

\* three Comments of consecutive lines, merged into one
C24_Witness ==
    /\ pc = "done"
    /\ Lenient
    /\ type = MIME_C
    /\ collapse_singleline_comments
    /\ content = << <<"/", "/", " ", "a">>, <<"/", "*", " ", "a", " ", "*", "/">>,
                    <<"/", "/", " ", "b">> >>
    /\ Len(OnlyComments(yielded)) = 3
    /\ MergeGaps(CollapseEnter(OnlyComments(yielded))) = {1}
    /\ OnlyComments(parsed_content) = <<[Comment(<< <<"a">>, <<"a">>, <<"b">> >>, 1, 3)
                                          EXCEPT !.is_multiline = TRUE]>>

\* a step of the lexer that reads a line the single-line rule takes
C25_Step ==
    (/\ pc = "parse"
     /\ ~CodeLanguageOf(type).sgml
     /\ line_number <= Len(content)
     /\ ~(CodeLanguageOf(type).has_multiline /\ multiline_comment_buffer # << >>)
     /\ StartsWith(Strip(content[line_number]), CodeLanguageOf(type).slc_header)) =>
        LET prefix == CodeLanguageOf(type).slc_header
            rest == SubSeq(Strip(content[line_number]), Len(prefix) + 1,
                           Len(Strip(content[line_number])))
            again == FindFirst(rest, prefix)
            between == IF again = 0 THEN rest ELSE SubSeq(rest, 1, again - 1)
            cs == OnlyComments(yielded')
        IN  /\ Len(cs) = Len(OnlyComments(yielded)) + 1
            /\ cs[Len(cs)].body = <<Strip(between)>>
            /\ cs[Len(cs)].start_line = line_number
            /\ cs[Len(cs)].end_line = line_number

\* C25: the body of a single-line Comment is the text between the prefix at
\* the head of the line and the next occurrence of the prefix on the line, or
\* the end of the line when there is none, without the blanks around it; what
\* follows a second occurrence of the prefix is not in the body.
C25_BodyUpToNextPrefix == [][C25_Step]_vars

C25_Witness ==
    /\ pc = "parse"
    /\ type = MIME_SHELL
    /\ content = << <<"#", " ", "a", " ", "#", " ", "b">> >>
    /\ line_number = 2
    /\ yielded = <<Comment(<< <<"a">> >>, 1, 1)>>

\* the body lines of a sequence of Comments, one after another
RECURSIVE BodyLines(_)
BodyLines(cs) == IF cs = << >> THEN << >> ELSE Head(cs).body \o BodyLines(Tail(cs))

\* C26: the body lines of the Comments do_collapse_singleline_comments
\* returns, one after another, are the body lines of the Comments it was
\* given, in the same order, none dropped, doubled or moved (in the loop:
\* those of the result, the accumulator and the rest of the input); it
\* returns at most as many Comments as it was given, and none for none.
C26_MergeConservesText ==
    /\ m_pc = "loop" =>
           BodyLines(locals.result) \o locals.comment.body \o BodyLines(locals.iterator)
               = BodyLines(comments)
    /\ m_pc = "returned" =>
           /\ BodyLines(locals.result) = BodyLines(comments)
           /\ Len(locals.result) <= Len(comments)
           /\ comments = << >> => locals.result = << >>

\* a block of two lines, a Comment merged onto it and one left apart
C26_Witness ==
    /\ m_pc = "returned"
    /\ pass = 1
    /\ Len(comments) = 3
    /\ Len(comments[1].body) = 2
    /\ Len(locals.result) = 2
    /\ Len(locals.result[1].body) = 3
    /\ locals.result[1].body[3] = <<"b">>
    /\ locals.result[2].body = << <<"a">> >>

\* the comment nodes of the document, in document order
CommentNodes == SelectSeq(content, LAMBDA n : n.kind = "comment")

\* the lines of the comment nodes from the k-th on, one after another
RECURSIVE CommentNodeLines(_)
CommentNodeLines(k) ==
    IF k > Len(CommentNodes) THEN << >>
    ELSE SplitLines(CommentNodes[k].text) \o CommentNodeLines(k + 1)

\* C27: for a markup type every Comment and StringLiteral has line number 0;
\* with collapsing, the comment nodes of the document, wherever they stand,
\* come out as one item, the lines of all of them in document order, and
\* that item is the last of the list returned, after every text node.
C27_MarkupCommentsBecomeOneLastItem ==
    (pc = "done" /\ Lenient /\ Supported(type) /\ IsMarkup(type)) =>
        /\ \A k \in 1..Len(yielded) :
               /\ LastLineNumber(yielded[k]) = 0
               /\ IsComment(yielded[k]) => yielded[k].start_line = 0
        /\ collapse_singleline_comments =>
               LET texts == IF include_strings THEN KeptTextNodes ELSE << >>
               IN  IF CommentNodes = << >>
                   THEN result = texts
                   ELSE /\ Len(result) = Len(texts) + 1
                        /\ SubSeq(result, 1, Len(texts)) = texts
                        /\ result[Len(result)] = Join(CommentNodeLines(1), <<"\n">>)
                        /\ Len(OnlyComments(parsed_content)) = 1
                        /\ IsComment(parsed_content[Len(parsed_content)])

\* two comment nodes with a text node between them
C27_Witness ==
    /\ pc = "done"
    /\ Lenient
    /\ type = MIME_XML
    /\ include_strings
    /\ collapse_singleline_comments
    /\ content = <<[kind |-> "comment", text |-> <<"a">>],
                   [kind |-> "text", text |-> <<"t">>],
                   [kind |-> "comment", text |-> <<"a", "\n", "b">>]>>
    /\ result = << <<"t">>, <<"a", "\n", "a", "\n", "b">> >>

\* the literals the extractor returns for the text process is called with
ProcessLiterals == ExtractCommentsAndStrings(SplitLines(raw_text), pr_type, TRUE, TRUE)

\* the tokens of the license-relevant blob: of the relevant literals, each
\* followed by a newline
BlobTokens ==
    ProcessText(Blob(ProcessLiterals,
                     {i \in 1..Len(ProcessLiterals) : LicenseRelevant(ProcessLiterals[i])}))

\* C28: Preprocessor.process returns a list in every case: [] for an empty
\* text, the tokens of the license-relevant blob when there are any, and
\* process_text of the whole text otherwise, that is for an unsupported MIME
\* type, when nothing is extracted, when no literal is license-relevant and
\* when the blob has no token.
C28_ProcessFallsBackToWholeText ==
    (pr_pc = "returned") =>
        /\ pr_result.kind = "list"
        /\ pr_result.items =
               IF raw_text = << >> THEN << >>
               ELSE IF BlobTokens # << >> THEN BlobTokens
               ELSE ProcessText(raw_text)

\* a license-relevant comment without a token, and a line of code after it
C28_Witness ==
    /\ pr_pc = "returned"
    /\ pr_type = MIME_PYTHON
    /\ raw_text = <<"#", " ", "l", "i", "c", "e", "n", "_", "x", "\n", "x">>
    /\ license_related_words = List(<< >>)
    /\ pr_result = List(<< <<"x">> >>)

\* what the problem of the special case label predicts; << >> when label is
\* no special case
PredictionFor(label) ==
    LET at == {k \in 1..Len(special_case_problems) : special_case_problems[k].case = label}
    IN  IF at = {} THEN << >> ELSE special_case_problems[CHOOSE k \in at : TRUE].predicts

\* the labels that stand for the labels of the base prediction from k on
RECURSIVE Refined(_)
Refined(k) ==
    IF k > Len(base_result) THEN << >>
    ELSE (IF PredictionFor(base_result[k]) # << >>
          THEN PredictionFor(base_result[k])
          ELSE <<base_result[k]>>) \o Refined(k + 1)

\* C29: SpecialSKLearnPipeline.predict returns the labels of the base
\* prediction in their order, each label without a special-case problem as
\* it is, each label with one replaced by the labels that problem predicts,
\* or left as the one label it is when the problem predicts nothing.
C29_RefinesWithoutInventing ==
    (sp_pc = "returned") => mapped_result = Refined(1)

\* the names of the two pipelines that are implemented
ImplementedNames == {"sklearn", "sklearn_special_cases"}

\* C30: for the pipeline names 'sklearn' and 'sklearn_special_cases'
\* build_model returns a pipeline object, never None, with its problems
\* loaded, and predict can be called on it for every file; for a missing
\* pipeline option and for an unknown name it raises
\* PipelineFactoryException.
C30_BuildModelReturnsPipeline ==
    /\ (f_pc = "built" /\ config_pipeline.content \in ImplementedNames) =>
           /\ build_returns # None
           /\ build_returns.single_label_problem # None
           /\ build_returns.multi_label_problem # None
           /\ build_returns.dual_problem # None
    /\ (f_pc = "raised" /\ config_pipeline # None
            /\ config_pipeline.content \in ImplementedNames) => FALSE
    /\ (f_pc \notin {"idle", "call"} /\ config_pipeline = None) =>
           f_pc = "raised" /\ f_raised.kind = "PipelineFactoryException"
    /\ (f_pc \notin {"idle", "call", "dispatch"} /\ config_pipeline # None
            /\ config_pipeline.content \notin ImplementedNames \cup {"pytorch"}) =>
           f_pc = "raised" /\ f_raised.kind = "PipelineFactoryException"

====
